---- MODULE Spec2Model ----
(***************************************************************************)
(* A model of cudf's SpillableBuffer                                       *)
(* (python/cudf/cudf/core/buffer/spillable_buffer.py): one buffer, the     *)
(* threads that call its methods, the SpillLock objects that keep it on    *)
(* device, the device heap and the manager's statistics.                   *)
(***************************************************************************)
EXTENDS Integers, Sequences, FiniteSets, TLC

\* ------------------------------------------------------------------ bounds
MaxSize == 1        \* a buffer holds 1..MaxSize bytes
MaxAddr == 2        \* device addresses are 1..MaxAddr (0 is the null pointer)
MaxTime == 1        \* time.monotonic() reads 0..MaxTime
MaxSlices == 2      \* the slices of the buffer alive at once

Threads == {"t1", "t2"}            \* the threads calling into the buffer
Tokens  == {"L1", "L2"}            \* the SpillLock objects callers can make
FrameIds == {"F1"}                 \* the device frames serialize() can hand out
Targets == {"cpu", "gpu", "disk"}  \* spill(target): "disk" is an unknown target
Bytes   == {0, 1}                  \* the values of a byte
None    == "None"

Addr  == 1..MaxAddr
Mem   == UNION {[1..n -> Bytes] : n \in 1..MaxSize}

\* An optional byte string: a key of _ptr_desc that may be absent, a heap cell
\* that may be free.
NoMem   == [has |-> FALSE, data |-> <<>>]
Some(m) == [has |-> TRUE, data |-> m]

BufIds == {"b1", "b2", "b3"}

\* Two SpillableBuffers, the thread that uses each, and the bytes each was
\* made from.
Pair == {"x", "y"}
Mine == [t \in Threads |-> IF t = "t1" THEN "x" ELSE "y"]
Original == [b \in Pair |-> IF b = "x" THEN <<0>> ELSE <<1>>]

\* CopyOnWriteBuffers: the objects a program can hold (the two that are sliced,
\* and one more for copies), the distance between the addresses of two
\* allocations, the keys of _instances, and the fields of an object that does
\* not exist (whole: the buffer it is the slice [0, size) of, if any;
\* copy_of: the buffer it was made from by copy(), if any).
CowIds == {"c1", "c2", "c3"}
TwoCows == {"c1", "c2"}
Stride == MaxSize + 1
PtrKeys == 0..((MaxAddr + 1) * Stride)
NoCow ==
    [live |-> FALSE, ptr |-> 0, size |-> 0, owner |-> 0, zero_copied |-> FALSE,
     inst |-> 0, whole |-> None, copy_of |-> None]

VARIABLES
    buf,      \* the SpillableBuffer's fields
    heap,     \* device memory: address -> bytes of the allocation there, or free
    lock,     \* SpillableBuffer.lock (an RLock): None or the thread holding it
    alive,    \* the SpillLock objects some caller still references
    frames,   \* the device frames from serialize() not yet released
    pc,       \* each thread's position inside the call it is running
    frame,    \* each thread's call frame (the call, its arguments, its locals)
    stats,    \* what the step just taken reported to the manager's statistics
    last,     \* the step just taken: call, argument, outcome, returned address
    held,     \* per SpillLock, a caller's or a device frame's: the address
              \* get_ptr returned under it (-1: none)
    handed,   \* the address ptr last returned without a lock (-1: none)
    content,  \* the bytes the buffer stands for: those it was made from, or
              \* those last written through an address it handed out
    born,     \* where the buffer was constructed: "gpu" or "cpu"
    scen,     \* how far the steps taken so far follow the lock / spill scenario
    logged,   \* whether log_expose has been called for the buffer
    slices,   \* the SpillableBufferSlice objects made of the buffer
    cow,      \* the CopyOnWriteBuffer objects: their fields
    cowmem,   \* device memory of the CopyOnWriteBuffers: one cell an allocation
    instances, \* CopyOnWriteBuffer._instances: ptr -> the live buffers in its set
    registry, \* the spill manager's registered buffers, by identity
    budget,   \* the spill manager's device-memory budget, in bytes
    clock,    \* what time.monotonic() reads for the manager's buffers
    pass,     \* the spill_to_limit() call in progress, or the last one's outcome
    pair,     \* two SpillableBuffers, each used by a thread of its own
    plock,    \* their locks (RLocks): None or the thread holding it
    call,     \* per thread: where its spill() call on its buffer stands
    cowcall   \* per thread: where its call on a CopyOnWriteBuffer stands

vars == <<buf, heap, lock, alive, frames, pc, frame, stats, last, held, handed,
          content, born, scen, logged, slices, cow, cowmem, instances,
          registry, budget, clock, pass, pair, plock, call, cowcall>>

\* The variables of the CopyOnWriteBuffers, and those of the SpillableBuffer.
cowvars == <<cow, cowmem, instances, cowcall>>

\* The variables of the spill manager and its registry.
mgrvars == <<registry, budget, clock, pass>>

\* The variables of the two buffers recovered side by side.
pairvars == <<pair, plock, call>>

spillvars == <<buf, heap, lock, alive, frames, pc, frame, held, handed,
               content, born>>

\* --------------------------------------------------------- pure operations

\* SpillableBuffer.is_spilled
is_spilled(b) == b.type # "gpu"

\* Mutants of spillable: the lock set, or the exposed flag, is not consulted.
spillable_ignoring_locks(b) == ~b.exposed

spillable_ignoring_exposed(b) == Cardinality(b.spill_locks) = 0

\* SpillableBuffer.spillable
spillable(b) == ~b.exposed /\ Cardinality(b.spill_locks) = 0

\* Mutant of copy_ptr_to_host: the host buffer is allocated and never filled.
copy_ptr_to_host_unfilled(h, p, n) == [i \in 1..n |-> 0]

\* rmm._lib.device_buffer.copy_ptr_to_host(ptr, host_mem) into
\* memoryview(bytearray(n)): the n bytes of device memory starting at ptr.
copy_ptr_to_host(h, p, n) == [i \in 1..n |-> h[p].data[i]]

\* copy_ptr_to_host(ptr + offset, host_mem) into memoryview(bytearray(n)).
copy_ptr_to_host_at(h, p, off, n) == [i \in 1..n |-> h[p].data[off + i]]

\* memoryview[offset : offset + size]
mv_slice(m, off, n) == SubSeq(m, off + 1, off + n)

\* rmm.DeviceBuffer.to_device(memoryview): the bytes of the new allocation.
to_device(mv) == [i \in 1..Len(mv) |-> mv[i]]

\* time.monotonic(): any reading not before the buffer's last one.
Clock(b) == b.last_accessed..MaxTime

\* Mutant of log_spill: source and destination are passed the other way round.
log_spill_swapped(src, dst, n) == <<"spill", dst, src, n>>

\* SpillStatistics.log_spill(src, dst, nbytes, time): one report.
log_spill(src, dst, n) == <<"spill", src, dst, n>>

\* SpillStatistics.log_expose(buf): one report.
log_expose == <<"expose">>

\* The reports in s of the kind k ("spill" or "expose").
Reports(s, k) == {i \in 1..Len(s) : s[i][1] = k}

\* Mutant of Forget: _spill_locks is a plain set and keeps its members alive.
Forget_strong(b, L) == b

\* _spill_locks is a WeakSet: a SpillLock nobody references any more is no
\* longer a member.
Forget(b, L) == [b EXCEPT !.spill_locks = @ \ {L}]

\* Mutants of Exposed: ptr does not set the flag; every call assigns it, so a
\* call made with a SpillLock clears it.
Exposed_never(f, b) == b.exposed

Exposed_assigned(f, b) == f.op = "ptr"

\* Mutant of Exposed: every call that reaches the device sets the flag.
Exposed_always(f, b) == TRUE

\* The _exposed flag after a call that reached the device: ptr sets it, the
\* calls made with a SpillLock leave it.
Exposed(f, b) == IF f.op = "ptr" THEN TRUE ELSE b.exposed

\* The device -> host branch of spill: copy out, drop the device allocation.
SpillToHost(b) ==
    [b EXCEPT !.memoryview = Some(copy_ptr_to_host(heap, b.ptr, b.size)),
              !.ptr = 0, !.owner = 0, !.type = "cpu"]

\* The heap once the buffer's owner (the DeviceBuffer) is released.
Release(h, b) == [a \in Addr |-> IF a = b.owner THEN NoMem ELSE h[a]]

\* Mutant of SpillCase: the ptr_type == target test is left out.
SpillCase_no_noop(b, target) ==
    IF ~spillable(b) THEN "ValueError"
    ELSE IF b.type = "gpu" /\ target = "cpu" THEN "tohost"
    ELSE IF b.type = "cpu" /\ target = "gpu"
         THEN (IF b.memoryview.has THEN "todevice" ELSE "KeyError")
    ELSE "ValueError"

\* Mutants of SpillCase: a buffer on device is spilled whatever the target; the
\* spillable test comes before the ptr_type == target test.
SpillCase_any_target(b, target) ==
    IF b.type = target THEN "noop"
    ELSE IF ~spillable(b) THEN "ValueError"
    ELSE IF b.type = "gpu" THEN "tohost"
    ELSE IF b.memoryview.has THEN "todevice" ELSE "KeyError"

SpillCase_spillable_first(b, target) ==
    IF ~spillable(b) THEN "ValueError"
    ELSE IF b.type = target THEN "noop"
    ELSE IF b.type = "gpu" /\ target = "cpu" THEN "tohost"
    ELSE IF b.type = "cpu" /\ target = "gpu"
         THEN (IF b.memoryview.has THEN "todevice" ELSE "KeyError")
    ELSE "ValueError"

\* What spill(target) decides under the lock, before it moves anything:
\*   "noop"        ptr_type == target
\*   "ValueError"  the buffer is unspillable, or the target is unknown
\*   "tohost"      the gpu -> cpu branch
\*   "KeyError"    cpu -> gpu with no "memoryview" key to pop
\*   "todevice"    the cpu -> gpu branch
SpillCase(b, target) ==
    IF b.type = target THEN "noop"
    ELSE IF ~spillable(b) THEN "ValueError"
    ELSE IF b.type = "gpu" /\ target = "cpu" THEN "tohost"
    ELSE IF b.type = "cpu" /\ target = "gpu"
         THEN (IF b.memoryview.has THEN "todevice" ELSE "KeyError")
    ELSE "ValueError"

\* off is the offset of the slice the call was made through (0: the buffer).
NoFrame ==
    [op |-> "none", target |-> None, tok |-> None, mv |-> NoMem, off |-> 0]

\* The label of a step: the call, its argument, its outcome ("ok", "noop", the
\* exception raised, or where a call not yet finished stands), the address it
\* returned (-1: none), the offset a slice added to it, and the bytes it
\* returned.
Label(op, arg, status, val) ==
    [op |-> op, arg |-> arg, status |-> status, val |-> val, off |-> 0,
     data |-> NoMem]

DataLabel(op, arg, status, m) ==
    [op |-> op, arg |-> arg, status |-> status, val |-> -1, off |-> 0,
     data |-> Some(m)]

\* SpillableBufferSlice.ptr / get_ptr: the base's address plus the offset.
PtrLabel(op, arg, status, val, off) ==
    [Label(op, arg, status, val) EXCEPT !.off = off]

\* The argument a call is labelled with: the target of a spill.
Arg(f) == IF f.op = "spill" THEN f.target ELSE None

\* A call that starts by taking the buffer's lock may start.
CanCall(t) == pc[t] = "idle" /\ lock = None

\* ------------------------------------------------------------------- Init

\* SpillableBuffer._from_device_memory(data, exposed=e)
FromDeviceMemory(m, a, e) ==
    [type |-> "gpu", memoryview |-> NoMem, ptr |-> a, owner |-> a,
     size |-> Len(m), exposed |-> e, spill_locks |-> {}, last_accessed |-> 0]

\* Mutant of FromHostMemory: the new buffer is marked exposed.
FromHostMemory_exposed(m) ==
    [type |-> "cpu", memoryview |-> Some(m), ptr |-> 0, owner |-> 0,
     size |-> Len(m), exposed |-> TRUE, spill_locks |-> {},
     last_accessed |-> 0]

\* SpillableBuffer._from_host_memory(data)
FromHostMemory(m) ==
    [type |-> "cpu", memoryview |-> Some(m), ptr |-> 0, owner |-> 0,
     size |-> Len(m), exposed |-> FALSE, spill_locks |-> {},
     last_accessed |-> 0]

\* A buffer as its constructor leaves it, nothing called on it yet.
Construct ==
    /\ \E m \in Mem :
        /\ content = m
        /\ \/ \E a \in Addr, e \in BOOLEAN :
                /\ buf = FromDeviceMemory(m, a, e)
                /\ heap = [x \in Addr |-> IF x = a THEN Some(m) ELSE NoMem]
                /\ born = "gpu"
           \/ /\ buf = FromHostMemory(m)
              /\ heap = [x \in Addr |-> NoMem]
              /\ born = "cpu"
    /\ lock = None
    /\ alive = {}
    /\ frames = {}
    /\ pc = [t \in Threads |-> "idle"]
    /\ frame = [t \in Threads |-> NoFrame]
    /\ stats = <<>>
    /\ last = Label("init", None, "ok", -1)
    /\ held = [L \in Tokens \cup FrameIds |-> -1]
    /\ handed = -1
    /\ scen = 0
    /\ logged = FALSE

\* A thread that is in no call on a CopyOnWriteBuffer.  In a call: the method
\* (op), the buffer it is called on (x), the object being made (y), and the
\* locals: the pointer, size and owner read or allocated so far.
NoCowCall ==
    [pc |-> "idle", op |-> "none", x |-> None, y |-> None,
     p |-> 0, n |-> 0, o |-> 0]

\* No CopyOnWriteBuffer has been made.
NoCowYet ==
    /\ cow = [c \in CowIds |-> NoCow]
    /\ cowmem = [a \in Addr |-> NoMem]
    /\ instances = [k \in PtrKeys |-> {}]
    /\ cowcall = [t \in Threads |-> NoCowCall]

\* The spill manager's registry as far as the one buffer's calls go: nothing
\* else registered, no pass running.
NoPass == [pc |-> "idle", victims |-> <<>>, report |-> "none"]

NoBuffer == [registered |-> FALSE, spilled |-> FALSE, exposed |-> FALSE,
             locked |-> FALSE, last_accessed |-> 0]

NoManagerYet ==
    /\ registry = [b \in BufIds |-> NoBuffer]
    /\ budget = 0
    /\ clock = 0
    /\ pass = NoPass

\* SpillableBuffer._from_host_memory and _from_device_memory for the two
\* buffers: dev is the DeviceBuffer the buffer owns, with its bytes.
PairFromHost(m) ==
    [type |-> "cpu", memoryview |-> Some(m), dev |-> NoMem, size |-> Len(m),
     exposed |-> FALSE, spill_locks |-> {}]

PairFromDevice(m, e) ==
    [type |-> "gpu", memoryview |-> NoMem, dev |-> Some(m), size |-> Len(m),
     exposed |-> e, spill_locks |-> {}]

\* The two buffers recovered side by side are not in use.
NoCall == [pc |-> "idle", target |-> None, mv |-> NoMem, cand |-> {},
           did |-> <<>>, status |-> "none"]

NoPairYet ==
    /\ pair = [b \in Pair |-> PairFromHost(Original[b])]
    /\ plock = [b \in Pair |-> None]
    /\ call = [t \in Threads |-> NoCall]

Init == Construct /\ slices = {} /\ NoCowYet /\ NoManagerYet /\ NoPairYet

\* ---------------------------------------------------------------- actions

\* A caller creates a SpillLock.
NewLock(L) ==
    /\ L \notin alive
    /\ alive' = alive \cup {L}
    /\ stats' = <<>>
    /\ last' = Label("new_lock", None, "ok", -1)
    /\ UNCHANGED <<buf, heap, lock, frames, pc, frame, held, handed, content,
                   born>>

\* The last reference to a SpillLock goes away: the WeakSet forgets it.  A lock
\* that a running call received as its argument is still referenced.
DropLock(L) ==
    /\ L \in alive
    /\ \A t \in Threads : frame[t].tok # L
    /\ alive' = alive \ {L}
    /\ buf' = Forget(buf, L)
    /\ held' = [held EXCEPT ![L] = -1]
    /\ stats' = <<>>
    /\ last' = Label("drop_lock", None,
                     IF L \in buf.spill_locks THEN "released" ELSE "ok", -1)
    /\ UNCHANGED <<heap, lock, frames, pc, frame, handed, content, born>>

\* Leaving the lock and the call: the thread is idle again.
Return(t) ==
    /\ pc' = [pc EXCEPT ![t] = "idle"]
    /\ frame' = [frame EXCEPT ![t] = NoFrame]
    /\ lock' = None

\* What the caller of spill(target="gpu") does once the buffer b is on device;
\* f is the caller's frame, s what the call has reported in this step, al the
\* live SpillLocks.
\*   ptr:                   _exposed = True, _last_accessed, return _ptr
\*   spill_lock:            _spill_locks.add(spill_lock)
\*   get_ptr, mutable_ptr:  spill_lock(spill_lock), then the unlocked tail
OnDevice(t, f, b, s, al) ==
    /\ stats' = s
    /\ alive' = al
    /\ CASE f.op = "ptr" ->
              /\ \E now \in Clock(b) :
                    buf' = [b EXCEPT !.exposed = Exposed(f, b),
                                     !.last_accessed = now]
              /\ Return(t)
              /\ handed' = b.ptr
              /\ last' = PtrLabel("ptr", Arg(f), "ok", b.ptr, f.off)
              /\ UNCHANGED held
         [] f.op = "spill_lock" ->
              /\ buf' = [b EXCEPT !.spill_locks = @ \cup (Tokens \cap {f.tok}),
                                  !.exposed = Exposed(f, b)]
              /\ Return(t)
              /\ last' = Label("spill_lock", Arg(f), "ok", -1)
              /\ UNCHANGED <<held, handed>>
         [] f.op \in {"get_ptr", "mutable_ptr"} ->
              /\ buf' = [b EXCEPT !.spill_locks = @ \cup {f.tok},
                                  !.exposed = Exposed(f, b)]
              /\ pc' = [pc EXCEPT ![t] = "tail"]
              /\ frame' = [frame EXCEPT ![t] = [f EXCEPT !.mv = NoMem]]
              /\ lock' = None
              /\ last' = Label(f.op, Arg(f), "locked", -1)
              /\ UNCHANGED <<held, handed>>

\* An exception leaves the call: every `with` releases the lock, the frame and
\* what it holds are dropped.
Raise(t, f, b, s, al, err) ==
    /\ buf' = b
    /\ stats' = s
    /\ Return(t)
    /\ alive' = al
    /\ last' = Label(f.op, Arg(f), err, -1)
    /\ UNCHANGED <<held, handed>>

\* self.spill(target="gpu") called under the lock by ptr or spill_lock, with
\* frame f, on buffer b.
EnsureOnDevice(t, f, b, s, al) ==
    LET c == SpillCase(b, "gpu") IN
    CASE c = "noop" ->
           /\ OnDevice(t, f, b, s, al)
           /\ UNCHANGED heap
      [] c \in {"ValueError", "KeyError"} ->
           /\ Raise(t, f, b, s, al, c)
           /\ UNCHANGED heap
      [] c = "todevice" ->
           /\ buf' = [b EXCEPT !.memoryview = NoMem]
           /\ stats' = s
           /\ lock' = t
           /\ pc' = [pc EXCEPT ![t] = "alloc"]
           /\ frame' = [frame EXCEPT ![t] = [f EXCEPT !.mv = b.memoryview]]
           /\ alive' = al
           /\ last' = Label(f.op, Arg(f), "alloc", -1)
           /\ UNCHANGED <<heap, held, handed>>

\* spill(target) called directly, up to the point where it returns, raises,
\* or calls the allocator.  The gpu -> cpu branch ends with log_spill(src=
\* ptr_type, dst=target, nbytes=size), called after the lock is released.
Spill(t, target) ==
    /\ CanCall(t)
    /\ LET c == SpillCase(buf, target)
           f == [NoFrame EXCEPT !.op = "spill", !.target = target]
       IN
       CASE c \in {"noop", "ValueError", "KeyError"} ->
              /\ stats' = <<>>
              /\ last' = Label("spill", target, c, -1)
              /\ UNCHANGED <<buf, heap, lock, pc, frame>>
         [] c = "tohost" ->
              /\ buf' = SpillToHost(buf)
              /\ heap' = Release(heap, buf)
              /\ stats' = <<log_spill("gpu", target, buf.size)>>
              /\ last' = Label("spill", target, "ok", -1)
              /\ UNCHANGED <<lock, pc, frame>>
         [] c = "todevice" ->
              /\ buf' = [buf EXCEPT !.memoryview = NoMem]
              /\ lock' = t
              /\ pc' = [pc EXCEPT ![t] = "alloc"]
              /\ frame' = [frame EXCEPT ![t] = [f EXCEPT !.mv = buf.memoryview]]
              /\ stats' = <<>>
              /\ last' = Label("spill", target, "alloc", -1)
              /\ UNCHANGED heap
    /\ UNCHANGED <<alive, frames, held, handed, content, born>>

\* rmm.DeviceBuffer.to_device succeeds: the rest of the cpu -> gpu branch with
\* its log_spill, and of the caller.
AllocOk(t) ==
    /\ pc[t] = "alloc"
    /\ \E a \in Addr :
        /\ ~heap[a].has
        /\ LET f == frame[t]
               b == [buf EXCEPT !.ptr = a, !.owner = a, !.type = "gpu"]
           IN
           /\ heap' = [heap EXCEPT ![a] = Some(to_device(f.mv.data))]
           /\ IF f.op = "spill"
              THEN /\ buf' = b
                   /\ Return(t)
                   /\ stats' = <<log_spill("cpu", f.target, b.size)>>
                   /\ last' = Label("spill", f.target, "ok", -1)
                   /\ UNCHANGED <<alive, held, handed>>
              ELSE OnDevice(t, f, b, <<log_spill("cpu", "gpu", b.size)>>, alive)
    /\ UNCHANGED <<frames, content, born>>

\* rmm.DeviceBuffer.to_device raises MemoryError: the exception leaves spill and
\* its callers; the memoryview popped for the call goes with the frame.
AllocFail(t) ==
    /\ pc[t] = "alloc"
    /\ Raise(t, frame[t], buf, <<>>, alive, "MemoryError")
    /\ UNCHANGED <<heap, frames, content, born>>

\* SpillManager.spill_to_device_limit() as far as this buffer is concerned: the
\* pass may pick it as a victim when it is on device, spillable and its lock is
\* free, and then calls spill(target="cpu") on it.
CanEvict == lock = None /\ ~is_spilled(buf) /\ spillable(buf)

\* The manager's eviction pass, run for another buffer's sake.
ManagerEvict ==
    /\ CanEvict
    /\ buf' = SpillToHost(buf)
    /\ heap' = Release(heap, buf)
    /\ stats' = <<log_spill("gpu", "cpu", buf.size)>>
    /\ last' = Label("evict", "cpu", "ok", -1)
    /\ UNCHANGED <<lock, alive, frames, pc, frame, held, handed, content, born>>

\* ptr, and get_ptr(spill_lock=None), which returns self.ptr.  First
\* self._manager.spill_to_device_limit(), which may evict this buffer; then,
\* under the lock: log_expose unless exposed already, spill(target="gpu").
PtrAt(t, off) ==
    /\ CanCall(t)
    /\ \E evict \in {e \in BOOLEAN : e => CanEvict} :
        LET b0 == IF evict THEN SpillToHost(buf) ELSE buf
            s0 == IF evict THEN <<log_spill("gpu", "cpu", buf.size)>> ELSE <<>>
            s1 == IF b0.exposed THEN s0 ELSE Append(s0, log_expose)
            f  == [NoFrame EXCEPT !.op = "ptr", !.off = off]
            c  == SpillCase(b0, "gpu")
        IN
        CASE c = "noop" ->
               /\ OnDevice(t, f, b0, s1, alive)
               /\ UNCHANGED heap
          [] c \in {"ValueError", "KeyError"} ->
               /\ Raise(t, f, b0, s1, alive, c)
               /\ heap' = IF evict THEN Release(heap, buf) ELSE heap
          [] c = "todevice" ->
               /\ buf' = [b0 EXCEPT !.memoryview = NoMem]
               /\ heap' = IF evict THEN Release(heap, buf) ELSE heap
               /\ stats' = s1
               /\ lock' = t
               /\ pc' = [pc EXCEPT ![t] = "alloc"]
               /\ frame' = [frame EXCEPT ![t] = [f EXCEPT !.mv = b0.memoryview]]
               /\ last' = Label("ptr", None, "alloc", -1)
               /\ UNCHANGED <<alive, held, handed>>
    /\ UNCHANGED <<frames, content, born>>

Ptr(t) == PtrAt(t, 0)

\* spill_lock(spill_lock): L is a live SpillLock, or None (the method then
\* makes its own, which does not outlive the call).
SpillLockCall(t, L) ==
    /\ CanCall(t)
    /\ L \in alive \cup {None}
    /\ EnsureOnDevice(t, [NoFrame EXCEPT !.op = "spill_lock", !.tok = L],
                      buf, <<>>, alive)
    /\ UNCHANGED <<frames, content, born>>

\* get_ptr(spill_lock=L) with a live SpillLock: spill_lock(L) under the lock.
GetPtrAt(t, L, off) ==
    /\ CanCall(t)
    /\ L \in alive
    /\ EnsureOnDevice(t, [NoFrame EXCEPT !.op = "get_ptr", !.tok = L,
                                         !.off = off],
                      buf, <<>>, alive)
    /\ UNCHANGED <<frames, content, born>>

GetPtr(t, L) == GetPtrAt(t, L, 0)

\* mutable_ptr: get_ptr(spill_lock=SpillLock()).  The SpillLock made for the
\* call is referenced by the call alone; it is named after the calling thread.
MutablePtrAt(t, off) ==
    /\ CanCall(t)
    /\ EnsureOnDevice(t, [NoFrame EXCEPT !.op = "mutable_ptr", !.tok = t,
                                         !.off = off],
                      buf, <<>>, alive)
    /\ UNCHANGED <<frames, content, born>>

MutablePtr(t) == MutablePtrAt(t, 0)

\* get_ptr, after spill_lock returned: _last_accessed = time.monotonic();
\* return self._ptr.  Under mutable_ptr the SpillLock made for the call dies
\* when get_ptr returns.
GetPtrTail(t) ==
    /\ pc[t] = "tail"
    /\ LET f == frame[t] IN
       /\ \E now \in Clock(buf) :
            LET b == [buf EXCEPT !.last_accessed = now] IN
            buf' = IF f.op = "mutable_ptr" THEN Forget(b, f.tok) ELSE b
       /\ held' = IF f.op = "get_ptr" THEN [held EXCEPT ![f.tok] = buf.ptr]
                  ELSE held
       /\ last' = PtrLabel(f.op, Arg(f), "ok", buf.ptr, f.off)
    /\ stats' = <<>>
    /\ pc' = [pc EXCEPT ![t] = "idle"]
    /\ frame' = [frame EXCEPT ![t] = NoFrame]
    /\ UNCHANGED <<heap, lock, alive, frames, handed, content, born>>

\* What memoryview(offset=off, size=n) does under the lock: a spillable buffer
\* is spilled and its host bytes returned, an unspillable one is copied out of
\* device memory.  op is the call the step is labelled with; a step that
\* returns bytes is labelled with the offset and size asked for as well.
ViewBytesAt(op, off, n) ==
    IF spillable(buf)
    THEN LET move == SpillCase(buf, "cpu") = "tohost"
             b == IF move THEN SpillToHost(buf) ELSE buf
         IN
         /\ buf' = b
         /\ heap' = IF move THEN Release(heap, buf) ELSE heap
         /\ stats' = IF move THEN <<log_spill("gpu", "cpu", buf.size)>> ELSE <<>>
         /\ last' = IF b.memoryview.has
                    THEN DataLabel(op, <<off, n>>, "ok",
                                   mv_slice(b.memoryview.data, off, n))
                    ELSE Label(op, None, "KeyError", -1)
    ELSE /\ last' = IF buf.type = "gpu"
                    THEN DataLabel(op, <<off, n>>, "ok",
                                   copy_ptr_to_host_at(heap, buf.ptr, off, n))
                    ELSE Label(op, None, "AssertionError", -1)
         /\ stats' = <<>>
         /\ UNCHANGED <<buf, heap>>

\* memoryview() with its defaults: offset 0, the buffer's size.
ViewBytes(op) == ViewBytesAt(op, 0, buf.size)

\* memoryview()
MemoryView(t) ==
    /\ CanCall(t)
    /\ ViewBytes("memoryview")
    /\ UNCHANGED <<lock, alive, frames, pc, frame, held, handed, content, born>>

\* Mutant of DelayedPointerTuple: the "data" entry is the plain tuple
\* (self.ptr, False), built at once.
DelayedPointerTuple_eager(b) == [b EXCEPT !.exposed = TRUE]

\* DelayedPointerTuple(buffer): the buffer once the "data" entry of the
\* descriptor is made.  The tuple keeps the buffer and reads nothing of it.
DelayedPointerTuple(b) == b

\* __cuda_array_interface__: a dict with "data": DelayedPointerTuple(self) and
\* "shape": (self.size,).  No lock is taken.
CudaArrayInterface(t) ==
    /\ pc[t] = "idle"
    /\ buf' = DelayedPointerTuple(buf)
    /\ stats' = <<>>
    /\ last' = Label("cuda_array_interface", None, "ok", -1)
    /\ UNCHANGED <<heap, lock, alive, frames, pc, frame, held, handed, content,
                   born>>

\* The indices a reader of the "data" entry may ask for.
DataIndices == {0, 1, 2}

\* DelayedPointerTuple.__getitem__(i) on the "data" entry of a descriptor:
\* element 0 is self._buf.ptr, element 1 is False, any other index raises
\* IndexError.
DataItem(t, i) ==
    IF i = 0 THEN Ptr(t)
    ELSE /\ pc[t] = "idle"
         /\ stats' = <<>>
         /\ last' = Label("data", i, IF i = 1 THEN "False" ELSE "IndexError",
                          -1)
         /\ UNCHANGED <<buf, heap, lock, alive, frames, pc, frame, held,
                        handed, content, born>>

\* Mutants of FrameLock: serialize gets the address from ptr; serialize reads
\* _ptr without a SpillLock.
FrameLock_exposing(b, F, now) ==
    [b EXCEPT !.exposed = TRUE, !.last_accessed = now]

FrameLock_unlocked(b, F, now) == [b EXCEPT !.last_accessed = now]

\* serialize() on device: spill_lock = SpillLock(); get_ptr(spill_lock), under
\* the buffer's lock.  F names the SpillLock.
FrameLock(b, F, now) ==
    [b EXCEPT !.spill_locks = @ \cup {F}, !.last_accessed = now]

\* serialize(): a spilled buffer gives its host bytes as the frame; a buffer on
\* device gives a Buffer over its memory whose owner holds a new SpillLock,
\* taken with get_ptr(spill_lock=...) under the lock.  F names the frame and
\* its SpillLock.
Serialize(t, F) ==
    /\ CanCall(t)
    /\ IF is_spilled(buf)
       THEN /\ ViewBytes("serialize")
            /\ UNCHANGED <<frames, held>>
       ELSE /\ F \notin frames
            /\ frames' = frames \cup {F}
            /\ \E now \in Clock(buf) : buf' = FrameLock(buf, F, now)
            /\ held' = [held EXCEPT ![F] = buf.ptr]
            /\ stats' = <<>>
            /\ last' = Label("serialize", None, "ok", buf.ptr)
            /\ UNCHANGED heap
    /\ UNCHANGED <<lock, alive, pc, frame, handed, content, born>>

\* The transport reads a device frame: the bytes at the frame's address, in
\* the allocation the frame's owner keeps alive.
ReadFrame(F) ==
    /\ F \in frames
    /\ heap[held[F]].has
    /\ stats' = <<>>
    /\ last' = DataLabel("read_frame", None, "ok",
                         copy_ptr_to_host(heap, held[F], buf.size))
    /\ UNCHANGED <<buf, heap, lock, alive, frames, pc, frame, held, handed,
                   content, born>>

\* The transport is done with a device frame: the frame and the SpillLock its
\* owner holds go away.
ReleaseFrame(F) ==
    /\ F \in frames
    /\ frames' = frames \ {F}
    /\ buf' = Forget(buf, F)
    /\ held' = [held EXCEPT ![F] = -1]
    /\ stats' = <<>>
    /\ last' = Label("release_frame", None, "ok", -1)
    /\ UNCHANGED <<heap, lock, alive, pc, frame, handed, content, born>>

\* Code that was handed a device address (by ptr, or by get_ptr under a
\* SpillLock it still holds) writes the buffer's bytes through it.
Write(a, m) ==
    /\ \/ a = handed
       \/ \E L \in alive : a = held[L]
    /\ a \in Addr
    /\ heap[a].has
    /\ Len(m) = Len(heap[a].data)
    /\ m # heap[a].data
    /\ heap' = [heap EXCEPT ![a] = Some(m)]
    /\ content' = m
    /\ stats' = <<>>
    /\ last' = Label("write", None, "ok", -1)
    /\ UNCHANGED <<buf, lock, alive, frames, pc, frame, held, handed, born>>

\* The scenario of the spec's testable properties, followed step by step: on
\* a buffer on device, unexposed and unlocked, with every thread idle,
\*   1 a SpillLock is made         2 get_ptr(lock) is called   3 and returns
\*   4 spill("cpu") is called      5 the lock is dropped       6 spill("cpu")
\*   7 ptr / get_ptr() is called   8 its allocation succeeds   9 spill("cpu")
\* The stage after a step labelled l; any other step leaves the scenario.
Scenario(l) ==
    LET spillcpu == l.op = "spill" /\ l.arg = "cpu" IN
    CASE /\ l.op = "new_lock"
         /\ ~is_spilled(buf) /\ ~buf.exposed /\ buf.spill_locks = {}
         /\ alive = {} /\ frames = {}
         /\ \A t \in Threads : pc[t] = "idle"         -> 1
      [] scen = 1 /\ l.op = "get_ptr"                 -> 2
      [] /\ scen = 2 /\ l.op = "get_ptr"
         /\ \A t \in Threads : pc'[t] = "idle"        -> 3
      [] scen = 3 /\ spillcpu                         -> 4
      [] scen = 4 /\ l.op = "drop_lock"               -> 5
      [] scen = 5 /\ spillcpu                         -> 6
      [] scen = 6 /\ l.op = "ptr"                     -> 7
      [] scen = 7 /\ l.op = "ptr" /\ l.status = "ok"  -> 8
      [] scen = 8 /\ spillcpu                         -> 9
      [] OTHER                                        -> 0

\* One step of the program, the scenario's stage after it, and whether the
\* statistics have been told of an exposure by now.
Step(A) ==
    /\ A
    /\ scen' = Scenario(last')
    /\ logged' = (logged \/ Reports(stats', "expose") # {})
    /\ UNCHANGED <<slices, cowvars, mgrvars, pairvars>>

Next ==
    \/ Step(\E L \in Tokens : NewLock(L))
    \/ Step(\E L \in Tokens : DropLock(L))
    \/ Step(\E t \in Threads, target \in Targets : Spill(t, target))
    \/ Step(\E t \in Threads : AllocOk(t))
    \/ Step(\E t \in Threads : AllocFail(t))
    \/ Step(ManagerEvict)
    \/ Step(\E t \in Threads : Ptr(t))
    \/ Step(\E t \in Threads, L \in Tokens \cup {None} : SpillLockCall(t, L))
    \/ Step(\E t \in Threads, L \in Tokens : GetPtr(t, L))
    \/ Step(\E t \in Threads : MutablePtr(t))
    \/ Step(\E t \in Threads : GetPtrTail(t))
    \/ Step(\E t \in Threads : MemoryView(t))
    \/ Step(\E t \in Threads, F \in FrameIds : Serialize(t, F))
    \/ Step(\E t \in Threads : CudaArrayInterface(t))
    \/ Step(\E t \in Threads, i \in DataIndices : DataItem(t, i))
    \/ Step(\E F \in FrameIds : ReadFrame(F))
    \/ Step(\E F \in FrameIds : ReleaseFrame(F))
    \/ Step(\E a \in Addr, m \in Mem : Write(a, m))

Spec == Init /\ [][Next]_vars

\* ------------------------------------------------------------------ slices

\* Mutant of SpillableBufferSlice: _offset and _size are stored the other way
\* round.
SpillableBufferSlice_swapped(n, offset, size) ==
    IF size < 0 \/ offset < 0 \/ offset + size > n
    THEN [ok |-> FALSE, offset |-> 0, size |-> 0]
    ELSE [ok |-> TRUE, offset |-> size, size |-> offset]

\* SpillableBufferSlice.__init__(base, offset, size) on a base of n bytes: the
\* slice (its _offset and _size), or not ok: ValueError.
SpillableBufferSlice(n, offset, size) ==
    IF size < 0 \/ offset < 0 \/ offset + size > n
    THEN [ok |-> FALSE, offset |-> 0, size |-> 0]
    ELSE [ok |-> TRUE, offset |-> offset, size |-> size]

\* SpillableBuffer._getitem(offset, size)
getitem(b, offset, size) == SpillableBufferSlice(b.size, offset, size)

\* SpillableBufferSlice._getitem(offset, size) on the slice s of b
slice_getitem(b, s, offset, size) ==
    SpillableBufferSlice(b.size, offset + s.offset, size)

\* SpillableBufferSlice.is_spilled, .exposed, .spillable: those of the base.
slice_is_spilled(b, s) == is_spilled(b)

slice_exposed(b, s) == b.exposed

\* Mutant of slice_spillable: the slice reads a flag and a lock set of its
\* own, which nothing ever sets.
slice_spillable_own(b, s) == TRUE

slice_spillable(b, s) == spillable(b)

\* The offsets and sizes a caller may ask for.
Asked == (0 - 1)..(MaxSize + 1)

\* The step of _getitem with the result r on an object of n bytes: the slice
\* is made, or ValueError is raised.
Sliced(n, offset, size, r) ==
    /\ slices' = IF r.ok THEN slices \cup {[offset |-> r.offset, size |-> r.size]}
                 ELSE slices
    /\ Cardinality(slices') <= MaxSlices
    /\ stats' = <<>>
    /\ last' = Label("getitem", <<n, offset, size>>,
                     IF r.ok THEN "ok" ELSE "ValueError", -1)
    /\ UNCHANGED <<buf, heap, lock, alive, frames, pc, frame, held, handed,
                   content, born>>

\* buffer._getitem(offset, size)
GetItem(offset, size) ==
    Sliced(buf.size, offset, size, getitem(buf, offset, size))

\* slice._getitem(offset, size)
SliceGetItem(s, offset, size) ==
    /\ s \in slices
    /\ Sliced(s.size, offset, size, slice_getitem(buf, s, offset, size))

\* The last reference to a slice goes away.
DropSlice(s) ==
    /\ s \in slices
    /\ slices' = slices \ {s}
    /\ stats' = <<>>
    /\ last' = Label("drop_slice", None, "ok", -1)
    /\ UNCHANGED <<buf, heap, lock, alive, frames, pc, frame, held, handed,
                   content, born>>

\* slice.spill(target): self._base.spill(target)
SliceSpill(t, s, target) == s \in slices /\ Spill(t, target)

\* slice.ptr: self._base.ptr + self._offset
SlicePtr(t, s) == s \in slices /\ PtrAt(t, s.offset)

\* slice.get_ptr(spill_lock=L): self._base.get_ptr(spill_lock=L) + self._offset
SliceGetPtr(t, s, L) == s \in slices /\ GetPtrAt(t, L, s.offset)

\* slice.spill_lock(L): self._base.spill_lock(L)
SliceSpillLock(t, s, L) == s \in slices /\ SpillLockCall(t, L)

\* slice.memoryview(): self._base.memoryview(offset=self._offset, size=self._size)
SliceMemoryView(t, s) ==
    /\ s \in slices
    /\ CanCall(t)
    /\ ViewBytesAt("slice_memoryview", s.offset, s.size)
    /\ UNCHANGED <<lock, alive, frames, pc, frame, held, handed, content, born>>

\* ------------------------------------------------- CopyOnWriteBuffer

\* The address of the allocation in cell a, and the cell of an address.
AddrOf(a) == a * Stride

CellOf(p) == p \div Stride

\* The bytes the buffer c stands for: mem[ptr : ptr + size].
cow_read(c, mem) ==
    [i \in 1..c.size |-> mem[CellOf(c.ptr)].data[(c.ptr % Stride) + i]]

\* Mutant of is_shared: no buffer ever finds itself shared.
is_shared_never(c, ins) == FALSE

\* CopyOnWriteBuffer._is_shared: len(self._instances) > 1
is_shared(c, ins) == Cardinality(ins[c.inst]) > 1

\* Mutant of finalize_init: the buffer is not added to the weak set.
finalize_init_forgets(ins, id, p) == ins

\* CopyOnWriteBuffer._finalize_init, the registry's part: the buffer id joins
\* the weak set of its ptr (and stays in any set it was in before).
finalize_init(ins, id, p) == [ins EXCEPT ![p] = @ \cup {id}]

\* CopyOnWriteBuffer._from_device_memory(data, exposed=e): the object's
\* fields, for data of n bytes at the address p kept alive by the owner o.
cow_from_device_memory(p, n, o, e) ==
    [live |-> TRUE, ptr |-> p, size |-> n, owner |-> o, zero_copied |-> e,
     inst |-> p, whole |-> None, copy_of |-> None]

\* Device memory once the allocations no live buffer owns, and no call in
\* progress holds in a local, are freed.
Sweep(mem, cw) ==
    [a \in Addr |->
        IF \/ \E c \in CowIds : cw[c].live /\ cw[c].owner = a
           \/ \E t \in Threads : cowcall[t].o = a
        THEN mem[a]
        ELSE NoMem]

\* A CopyOnWriteBuffer made from a device allocation, alone in the registry.
CowConstruct ==
    \E a \in Addr, e \in BOOLEAN :
        /\ cow = [c \in CowIds |->
                    IF c = "c1"
                    THEN cow_from_device_memory(AddrOf(a), Len(content), a, e)
                    ELSE NoCow]
        /\ cowmem = [x \in Addr |-> IF x = a THEN Some(content) ELSE NoMem]
        /\ instances = finalize_init([k \in PtrKeys |-> {}], "c1", AddrOf(a))
        /\ cowcall = [t \in Threads |-> NoCowCall]

\* x._getitem(offset, size), the new object being y: a buffer over
\* [ptr + offset, ptr + offset + size) with x's owner, registered under its
\* own ptr.  __getitem__ passes an offset and a size inside x.
CowGetItem(x, y, offset, size) ==
    /\ cow[x].live /\ ~cow[y].live
    /\ offset >= 0 /\ size >= 0 /\ offset + size <= cow[x].size
    /\ LET p == cow[x].ptr + offset
           c == cow_from_device_memory(p, size, cow[x].owner, FALSE)
       IN
       /\ cow' = [cow EXCEPT ![y] =
                    [c EXCEPT !.whole = IF offset = 0 /\ size = cow[x].size
                                        THEN x ELSE None]]
       /\ instances' = finalize_init(instances, y, p)
    /\ stats' = <<>>
    /\ last' = Label("cow_getitem", None, "ok", -1)
    /\ UNCHANGED cowmem

\* x.ptr (op "cow_ptr"), x.__cuda_array_interface__ (op "cow_cai") and
\* x.mutable_ptr (op "cow_mutable_ptr"): _unlink_shared_buffers, which copies
\* the bytes to a new allocation when the buffer is shared and not zero-copied,
\* or fails to allocate; its _finalize_init clears _zero_copied; then ptr and
\* __cuda_array_interface__ set _zero_copied.
CowAccess(x, op) ==
    LET c == cow[x]
        z == op \in {"cow_ptr", "cow_cai"}
        who == IF z THEN None ELSE x
    IN
    /\ c.live
    /\ stats' = <<>>
    /\ IF ~c.zero_copied /\ is_shared(c, instances)
       THEN \/ \E a \in Addr :
                 /\ ~cowmem[a].has
                 /\ LET cw == [cow EXCEPT ![x] =
                                 [c EXCEPT !.ptr = AddrOf(a), !.owner = a,
                                           !.inst = AddrOf(a),
                                           !.zero_copied = z]]
                    IN
                    /\ cow' = cw
                    /\ cowmem' = Sweep([cowmem EXCEPT ![a] =
                                           Some(cow_read(c, cowmem))], cw)
                 /\ instances' = finalize_init(instances, x, AddrOf(a))
                 /\ last' = Label(op, who, "ok", AddrOf(a))
            \/ /\ last' = Label(op, who, "MemoryError", -1)
               /\ UNCHANGED cowvars
       ELSE /\ cow' = [cow EXCEPT ![x].zero_copied = @ \/ z]
            /\ last' = Label(op, who, "ok", c.ptr)
            /\ UNCHANGED <<cowmem, instances>>

\* x._get_readonly_proxy_obj: a read-only wrapper of x's _ptr and size; no
\* unlink, no flag, nothing of the buffers or of the registry changes.
CowReadonly(x) ==
    /\ cow[x].live
    /\ stats' = <<>>
    /\ last' = Label("cow_readonly", None, "ok", cow[x].ptr)
    /\ UNCHANGED cowvars

\* The last reference to x goes away: the weak sets forget it, and memory
\* nobody owns any more is freed.
CowDrop(x) ==
    /\ cow[x].live
    /\ LET cw == [c \in CowIds |->
                    IF c = x THEN NoCow
                    ELSE [cow[c] EXCEPT
                            !.whole = IF @ = x THEN None ELSE @,
                            !.copy_of = IF @ = x THEN None ELSE @]]
       IN
       /\ cow' = cw
       /\ cowmem' = Sweep(cowmem, cw)
    /\ instances' = [k \in PtrKeys |-> instances[k] \ {x}]
    /\ stats' = <<>>
    /\ last' = Label("cow_drop", None, "ok", -1)

\* A copy that never aliases: every copy duplicates the bytes.
copy_aliases_never(c, deep) == FALSE

\* A copy that aliases whatever the buffer's state is.
copy_aliases_always(c, deep) == ~deep

\* copy() aliases the allocation only when a shallow copy is asked of a buffer
\* whose pointer has not been handed out.
copy_aliases(c, deep) == ~deep /\ ~c.zero_copied

\* y = x.copy(deep): when not deep and x is not zero-copied, a new object with
\* x's _ptr, _size and _owner that _finalize_init registers; otherwise
\* _from_device_memory(rmm.DeviceBuffer(ptr=x._ptr, size=x.size)), a new
\* allocation holding x's bytes, or the allocator's MemoryError.
CowCopy(x, y, deep) ==
    LET c == cow[x] IN
    /\ c.live /\ ~cow[y].live
    /\ stats' = <<>>
    /\ IF copy_aliases(c, deep)
       THEN /\ cow' = [cow EXCEPT ![y] =
                         [c EXCEPT !.zero_copied = FALSE, !.inst = c.ptr,
                                   !.whole = None, !.copy_of = x]]
            /\ instances' = finalize_init(instances, y, c.ptr)
            /\ last' = Label("cow_copy", deep, "shallow", -1)
            /\ UNCHANGED cowmem
       ELSE \/ \E a \in Addr :
                 /\ ~cowmem[a].has
                 /\ cow' = [cow EXCEPT ![y] =
                       [cow_from_device_memory(AddrOf(a), c.size, a, FALSE)
                          EXCEPT !.copy_of = x]]
                 /\ cowmem' = [cowmem EXCEPT ![a] = Some(cow_read(c, cowmem))]
                 /\ instances' = finalize_init(instances, y, AddrOf(a))
                 /\ last' = Label("cow_copy", deep, "deep", -1)
            \/ /\ last' = Label("cow_copy", deep, "MemoryError", -1)
               /\ UNCHANGED cowvars

\* The caller of x.mutable_ptr writes the bytes m through the address it has
\* just been given.
CowWrite(m) ==
    LET x == last.arg
        a == CellOf(last.val)
        off == last.val % Stride
    IN
    /\ last.op = "cow_mutable_ptr"
    /\ last.status = "ok"
    /\ Len(m) = cow[x].size
    /\ cowmem' = [cowmem EXCEPT ![a].data =
                     [i \in 1..Len(@) |->
                         IF i > off /\ i <= off + Len(m) THEN m[i - off]
                         ELSE @[i]]]
    /\ stats' = <<>>
    /\ last' = Label("cow_write", None, "ok", -1)
    /\ UNCHANGED <<cow, instances>>

\* One thread and one SpillLock working on a buffer and its slices.
SliceThreads == {"t1"}
SliceTokens == {"L1"}

\* A step that makes or drops a slice.
SliceStep(A) ==
    A /\ UNCHANGED <<scen, logged, cowvars, mgrvars, pairvars>>

\* Slicing alone: a buffer made from host memory, sliced and sliced again.
GetItemInit == Init /\ born = "cpu"

GetItemNext ==
    \/ SliceStep(\E offset \in Asked, size \in Asked : GetItem(offset, size))
    \/ SliceStep(\E s \in slices, offset \in Asked, size \in Asked :
                    SliceGetItem(s, offset, size))
    \/ SliceStep(\E s \in slices : DropSlice(s))

GetItemSpec == GetItemInit /\ [][GetItemNext]_vars

\* The slices _getitem makes of the buffer b.
SlicesOf(b) ==
    {[offset |-> r.offset, size |-> r.size] :
        r \in {x \in {getitem(b, o, n) : o \in Asked, n \in Asked} : x.ok}}

\* A buffer just constructed, and one or two slices made of it.
SliceInit ==
    /\ Construct
    /\ NoCowYet
    /\ NoManagerYet
    /\ NoPairYet
    /\ \E x \in SlicesOf(buf), y \in SlicesOf(buf) : slices = {x, y}

\* A CopyOnWriteBuffer just constructed; no SpillableBuffer is in use.
CowInit ==
    /\ Construct /\ born = "cpu" /\ slices = {} /\ CowConstruct
    /\ NoManagerYet /\ NoPairYet

\* A step of a CopyOnWriteBuffer.
CowStep(A) ==
    A /\ UNCHANGED <<spillvars, slices, scen, logged, mgrvars, pairvars, cowcall>>

\* A step of the buffer, or one made through a slice: the slices stay.
BaseStep(A) ==
    /\ NoCowYet
    /\ A
    /\ UNCHANGED <<slices, scen, cowvars, mgrvars, pairvars>>
    /\ logged' = logged

SliceNext ==
    \/ BaseStep(\E L \in SliceTokens : NewLock(L))
    \/ BaseStep(\E L \in SliceTokens : DropLock(L))
    \/ BaseStep(\E t \in SliceThreads, target \in Targets : Spill(t, target))
    \/ BaseStep(\E t \in SliceThreads : Ptr(t))
    \/ BaseStep(\E t \in SliceThreads, L \in SliceTokens : GetPtr(t, L))
    \/ BaseStep(\E t \in SliceThreads : MemoryView(t))
    \/ BaseStep(\E t \in SliceThreads : AllocOk(t))
    \/ BaseStep(\E t \in SliceThreads : AllocFail(t))
    \/ BaseStep(\E t \in SliceThreads : GetPtrTail(t))
    \/ BaseStep(\E a \in Addr, m \in Mem : Write(a, m))
    \/ BaseStep(\E t \in SliceThreads, s \in slices, target \in Targets :
                   SliceSpill(t, s, target))
    \/ BaseStep(\E t \in SliceThreads, s \in slices : SlicePtr(t, s))
    \/ BaseStep(\E t \in SliceThreads, s \in slices, L \in SliceTokens :
                   SliceGetPtr(t, s, L))
    \/ BaseStep(\E t \in SliceThreads, s \in slices, L \in SliceTokens :
                   SliceSpillLock(t, s, L))
    \/ BaseStep(\E t \in SliceThreads, s \in slices : SliceMemoryView(t, s))
    \/ CowStep(\E x \in TwoCows, y \in TwoCows, offset \in Asked, size \in Asked :
                  CowGetItem(x, y, offset, size))
    \/ CowStep(\E x \in TwoCows : CowAccess(x, "cow_ptr"))
    \/ CowStep(\E x \in TwoCows : CowAccess(x, "cow_mutable_ptr"))
    \/ CowStep(\E x \in TwoCows : CowDrop(x))

\* A SpillableBuffer with its slices, or a CopyOnWriteBuffer with its.
SliceSpec == (SliceInit \/ CowInit) /\ [][SliceNext]_vars

\* CopyOnWriteBuffers: copies, pointer accesses, writes through a mutable
\* pointer, destructions.
CowNext ==
    \/ CowStep(\E x \in CowIds, y \in CowIds, deep \in BOOLEAN :
                  CowCopy(x, y, deep))
    \/ CowStep(\E x \in CowIds : CowAccess(x, "cow_ptr"))
    \/ CowStep(\E x \in CowIds : CowAccess(x, "cow_cai"))
    \/ CowStep(\E x \in CowIds : CowAccess(x, "cow_mutable_ptr"))
    \/ CowStep(\E x \in CowIds : CowReadonly(x))
    \/ CowStep(\E m \in Mem : CowWrite(m))
    \/ CowStep(\E x \in CowIds : CowDrop(x))

CowSpec == CowInit /\ [][CowNext]_vars

\* Two CopyOnWriteBuffers, one made of the other by slicing or by copying:
\* slices, copies, pointer accesses, writes through a mutable pointer,
\* destructions.
CowSliceNext ==
    \/ CowStep(\E x \in TwoCows, y \in TwoCows, offset \in Asked, size \in Asked :
                  CowGetItem(x, y, offset, size))
    \/ CowStep(\E x \in TwoCows, y \in TwoCows, deep \in BOOLEAN :
                  CowCopy(x, y, deep))
    \/ CowStep(\E x \in TwoCows : CowAccess(x, "cow_ptr"))
    \/ CowStep(\E x \in TwoCows : CowAccess(x, "cow_mutable_ptr"))
    \/ CowStep(\E m \in Mem : CowWrite(m))
    \/ CowStep(\E x \in TwoCows : CowDrop(x))

CowSliceSpec == CowInit /\ [][CowSliceNext]_vars

\* ---------------------------------- CopyOnWriteBuffers under two threads
\* cow_buffer.py takes no lock: a thread can be switched out between any two
\* statements of copy() and of _unlink_shared_buffers().

\* The thread t is in no call, and no call in progress uses the buffer x.
CowIdle(t) == cowcall[t].pc = "idle"

InUse(x) == \E t \in Threads : ~CowIdle(t) /\ x \in {cowcall[t].x, cowcall[t].y}

\* t calls x.copy(deep=False), the new object being y: the test of line 129.
RaceCopyBegin(t, x, y) ==
    /\ CowIdle(t)
    /\ cow[x].live /\ ~cow[y].live /\ ~InUse(y)
    /\ cowcall' = [cowcall EXCEPT ![t] =
          [NoCowCall EXCEPT !.op = "cow_copy", !.x = x, !.y = y,
                            !.pc = IF copy_aliases(cow[x], FALSE)
                                   THEN "fields" ELSE "deep"]]
    /\ UNCHANGED <<cow, cowmem, instances, stats, last>>

\* Lines 130-133: the new object takes x's _ptr, _size and _owner as they are
\* now.
RaceCopyFields(t) ==
    LET k == cowcall[t] IN
    /\ k.pc = "fields"
    /\ cowcall' = [cowcall EXCEPT ![t] =
          [k EXCEPT !.pc = "finalize", !.p = cow[k.x].ptr,
                    !.n = cow[k.x].size, !.o = cow[k.x].owner]]
    /\ UNCHANGED <<cow, cowmem, instances, stats, last>>

\* Line 134 (_finalize_init, 45-49) and the return of the shallow copy.
RaceCopyFinalize(t) ==
    LET k == cowcall[t] IN
    /\ k.pc = "finalize" /\ k.op = "cow_copy"
    /\ cow' = [cow EXCEPT ![k.y] =
                 [cow_from_device_memory(k.p, k.n, k.o, FALSE)
                    EXCEPT !.copy_of = k.x]]
    /\ instances' = finalize_init(instances, k.y, k.p)
    /\ cowcall' = [cowcall EXCEPT ![t] = NoCowCall]
    /\ stats' = <<>>
    /\ last' = Label("cow_copy", FALSE, "shallow", -1)
    /\ UNCHANGED cowmem

\* Lines 136-139, for a zero-copied x: a new allocation with x's bytes and the
\* object made of it, which no other thread can reach before copy() returns;
\* or the allocator's MemoryError.
RaceCopyDeep(t) ==
    LET k == cowcall[t] IN
    /\ k.pc = "deep"
    /\ cowcall' = [cowcall EXCEPT ![t] = NoCowCall]
    /\ stats' = <<>>
    /\ \/ \E a \in Addr :
            /\ ~cowmem[a].has
            /\ cow' = [cow EXCEPT ![k.y] =
                  [cow_from_device_memory(AddrOf(a), cow[k.x].size, a, FALSE)
                     EXCEPT !.copy_of = k.x]]
            /\ cowmem' = [cowmem EXCEPT ![a] = Some(cow_read(cow[k.x], cowmem))]
            /\ instances' = finalize_init(instances, k.y, AddrOf(a))
            /\ last' = Label("cow_copy", FALSE, "deep", -1)
       \/ /\ last' = Label("cow_copy", FALSE, "MemoryError", -1)
          /\ UNCHANGED <<cow, cowmem, instances>>

\* t calls x.mutable_ptr: the test of _unlink_shared_buffers, line 184.
RaceUnlinkBegin(t, x) ==
    /\ CowIdle(t)
    /\ cow[x].live
    /\ cowcall' = [cowcall EXCEPT ![t] =
          [NoCowCall EXCEPT !.op = "cow_mutable_ptr", !.x = x,
                            !.pc = IF ~cow[x].zero_copied
                                      /\ is_shared(cow[x], instances)
                                   THEN "alloc" ELSE "ret"]]
    /\ UNCHANGED <<cow, cowmem, instances, stats, last>>

\* Lines 187-188: the deep copy of x's DeviceBuffer, or MemoryError.
RaceUnlinkAlloc(t) ==
    LET k == cowcall[t] IN
    /\ k.pc = "alloc"
    /\ \/ \E a \in Addr :
            /\ ~cowmem[a].has
            /\ cowmem' = [cowmem EXCEPT ![a] = Some(cow_read(cow[k.x], cowmem))]
            /\ cowcall' = [cowcall EXCEPT ![t] =
                  [k EXCEPT !.pc = "rebind", !.p = AddrOf(a),
                            !.n = cow[k.x].size, !.o = a]]
            /\ UNCHANGED <<stats, last>>
       \/ /\ cowcall' = [cowcall EXCEPT ![t] = NoCowCall]
          /\ stats' = <<>>
          /\ last' = Label("cow_mutable_ptr", k.x, "MemoryError", -1)
          /\ UNCHANGED cowmem
    /\ UNCHANGED <<cow, instances>>

\* Lines 189-191: x is rebound to the copy; the old allocation goes when
\* nothing owns it any more.
RaceUnlinkRebind(t) ==
    LET k == cowcall[t]
        cw == [cow EXCEPT ![k.x].ptr = k.p, ![k.x].size = k.n,
                          ![k.x].owner = k.o]
    IN
    /\ k.pc = "rebind"
    /\ cow' = cw
    /\ cowmem' = Sweep(cowmem, cw)
    /\ cowcall' = [cowcall EXCEPT ![t].pc = "finalize"]
    /\ UNCHANGED <<instances, stats, last>>

\* Line 192 (_finalize_init, 45-49): x joins the set of its new pointer.
RaceUnlinkFinalize(t) ==
    LET k == cowcall[t] IN
    /\ k.pc = "finalize" /\ k.op = "cow_mutable_ptr"
    /\ instances' = finalize_init(instances, k.x, cow[k.x].ptr)
    /\ cow' = [cow EXCEPT ![k.x].inst = cow[k.x].ptr,
                          ![k.x].zero_copied = FALSE]
    /\ cowcall' = [cowcall EXCEPT ![t].pc = "ret"]
    /\ UNCHANGED <<cowmem, stats, last>>

\* Line 102: mutable_ptr returns x's pointer as it is now.
RaceReturn(t) ==
    LET k == cowcall[t] IN
    /\ k.pc = "ret"
    /\ cowcall' = [cowcall EXCEPT ![t] = NoCowCall]
    /\ stats' = <<>>
    /\ last' = Label("cow_mutable_ptr", k.x, "ok", cow[k.x].ptr)
    /\ UNCHANGED <<cow, cowmem, instances>>

\* The last reference to x goes away; a thread in a call on x holds one.
RaceDrop(x) ==
    /\ ~InUse(x)
    /\ CowDrop(x)
    /\ UNCHANGED cowcall

\* A step of a thread working on the CopyOnWriteBuffers.
CowRaceStep(A) ==
    A /\ UNCHANGED <<spillvars, slices, scen, logged, mgrvars, pairvars>>

CowRaceNext ==
    \/ CowRaceStep(\E t \in Threads, x \in TwoCows, y \in TwoCows :
                      RaceCopyBegin(t, x, y))
    \/ CowRaceStep(\E t \in Threads : RaceCopyFields(t))
    \/ CowRaceStep(\E t \in Threads : RaceCopyFinalize(t))
    \/ CowRaceStep(\E t \in Threads : RaceCopyDeep(t))
    \/ CowRaceStep(\E t \in Threads, x \in TwoCows : RaceUnlinkBegin(t, x))
    \/ CowRaceStep(\E t \in Threads : RaceUnlinkAlloc(t))
    \/ CowRaceStep(\E t \in Threads : RaceUnlinkRebind(t))
    \/ CowRaceStep(\E t \in Threads : RaceUnlinkFinalize(t))
    \/ CowRaceStep(\E t \in Threads : RaceReturn(t))
    \/ CowRaceStep(\E x \in TwoCows : RaceDrop(x))

CowRaceSpec == CowInit /\ [][CowRaceNext]_vars

\* ------------------------------------------------------ the spill manager

\* The manager's registry: three buffers of the sizes of the concrete scenario,
\* and the budgets it is configured with.
BufSize == [b \in BufIds |-> CASE b = "b1" -> 1024 [] b = "b2" -> 2048
                               [] OTHER -> 4096]

Budgets == {0, 5000}

RECURSIVE nbytes(_)
nbytes(S) ==
    IF S = {} THEN 0
    ELSE LET b == CHOOSE x \in S : TRUE IN BufSize[b] + nbytes(S \ {b})

\* The registered buffers whose bytes are on device.
Resident(reg) == {b \in BufIds : reg[b].registered /\ ~reg[b].spilled}

\* SpillableBuffer.spillable: not exposed and no spill lock alive.
buffer_spillable(r) == ~r.exposed /\ ~r.locked

\* The buffers the pass may evict: registered, on device, spillable.
Victims(reg) == {b \in Resident(reg) : buffer_spillable(reg[b])}

\* All the device bytes of the registry, and those of them the pass counts:
\* the usage with the unspillable buffers excluded.
resident_bytes(reg) == nbytes(Resident(reg))

device_usage(reg) == nbytes(Victims(reg))

over_budget_never(reg, limit) == FALSE

\* The loop condition of spill_to_limit().
over_budget(reg, limit) == device_usage(reg) > limit

Oldest_any(reg) == Victims(reg)

\* The victim policy: least recently accessed first.
Oldest(reg) ==
    {v \in Victims(reg) :
        \A c \in Victims(reg) : reg[v].last_accessed <= reg[c].last_accessed}

Idle == pass.pc = "idle"

\* A SpillableBuffer is constructed, from device memory (exposed or not) or
\* from host memory (never exposed), and registers itself with the manager.
Register(b, spilled, exposed) ==
    /\ Idle
    /\ ~registry[b].registered
    /\ spilled => ~exposed
    /\ registry' = [registry EXCEPT ![b] =
           [NoBuffer EXCEPT !.registered = TRUE, !.spilled = spilled,
                            !.exposed = exposed, !.last_accessed = clock]]
    /\ UNCHANGED <<budget, clock, pass>>

\* The last reference to a buffer goes: the registry forgets it.
Deregister(b) ==
    /\ Idle
    /\ registry[b].registered
    /\ ~registry[b].locked
    /\ registry' = [registry EXCEPT ![b] = NoBuffer]
    /\ UNCHANGED <<budget, clock, pass>>

\* get_ptr(spill_lock=L) on a registered buffer: unspill if spilled, add the
\* lock, stamp the access.  An unspill waits for a running pass.
Access(b) ==
    /\ registry[b].registered
    /\ registry[b].spilled => Idle
    /\ registry' = [registry EXCEPT ![b].spilled = FALSE, ![b].locked = TRUE,
                                    ![b].last_accessed = clock]
    /\ UNCHANGED <<budget, clock, pass>>

\* The last SpillLock of a buffer is dropped.
Unlock(b) ==
    /\ registry[b].locked
    /\ registry' = [registry EXCEPT ![b].locked = FALSE]
    /\ UNCHANGED <<budget, clock, pass>>

\* ptr on a registered buffer, once the pass it starts with has returned:
\* unspill if spilled, expose for good.
Expose(b) ==
    /\ Idle
    /\ registry[b].registered
    /\ ~registry[b].exposed
    /\ registry' = [registry EXCEPT ![b].spilled = FALSE, ![b].exposed = TRUE,
                                    ![b].last_accessed = clock]
    /\ UNCHANGED <<budget, clock, pass>>

\* time.monotonic() moves on.
Tick ==
    /\ clock < MaxTime
    /\ clock' = clock + 1
    /\ UNCHANGED <<registry, budget, pass>>

\* spill_to_limit() is called.
SpillToLimitCall ==
    /\ Idle
    /\ pass' = [pc |-> "head", victims |-> <<>>, report |-> "none"]
    /\ UNCHANGED <<registry, budget, clock>>

\* The head of its loop: while the usage exceeds the budget, go on and select
\* a victim; otherwise return.
SpillToLimitHead ==
    /\ pass.pc = "head"
    /\ pass' = IF over_budget(registry, budget)
               THEN [pass EXCEPT !.pc = "select"]
               ELSE [pass EXCEPT !.pc = "idle", !.report = "within"]
    /\ UNCHANGED <<registry, budget, clock>>

\* The body of its loop: spill("cpu") the least recently accessed victim; if no
\* victim is left, stop and report exhaustion.
SpillToLimitSelect ==
    /\ pass.pc = "select"
    /\ IF Victims(registry) = {}
       THEN /\ pass' = [pass EXCEPT !.pc = "idle", !.report = "exhausted"]
            /\ UNCHANGED registry
       ELSE \E v \in Oldest(registry) :
            /\ registry' = [registry EXCEPT ![v].spilled = TRUE]
            /\ pass' = [pass EXCEPT !.pc = "head", !.victims = Append(@, v)]
    /\ UNCHANGED <<budget, clock>>

\* A manager with a budget and nothing registered yet; the one buffer of the
\* other specifications is not in use.
ManagerInit ==
    /\ Construct
    /\ born = "cpu"
    /\ slices = {}
    /\ NoCowYet
    /\ registry = [b \in BufIds |-> NoBuffer]
    /\ budget \in Budgets
    /\ clock = 0
    /\ pass = NoPass
    /\ NoPairYet

ManagerStep(A) ==
    /\ A
    /\ UNCHANGED <<spillvars, stats, last, scen, logged, slices, cowvars,
                   pairvars>>

ManagerNext ==
    \/ ManagerStep(\E b \in BufIds, spilled \in BOOLEAN, exposed \in BOOLEAN :
                      Register(b, spilled, exposed))
    \/ ManagerStep(\E b \in BufIds : Deregister(b))
    \/ ManagerStep(\E b \in BufIds : Access(b))
    \/ ManagerStep(\E b \in BufIds : Unlock(b))
    \/ ManagerStep(\E b \in BufIds : Expose(b))
    \/ ManagerStep(Tick)
    \/ ManagerStep(SpillToLimitCall)
    \/ ManagerStep(SpillToLimitHead)
    \/ ManagerStep(SpillToLimitSelect)

\* The thread that called spill_to_limit() keeps running it.
ManagerSpec ==
    /\ ManagerInit
    /\ [][ManagerNext]_vars
    /\ WF_vars(ManagerStep(SpillToLimitHead))
    /\ WF_vars(ManagerStep(SpillToLimitSelect))

\* ------------------------------------- two buffers recovered side by side

\* Thread t runs spill(target) on its own buffer Mine[t]; while the device
\* allocation of a recovery runs, the allocator may start the manager's
\* eviction pass in the same thread, and the pass considers every buffer.

pass_acquire_blocking(owner, t) ==
    IF owner \in {None, t} THEN "taken" ELSE "wait"

\* How the pass takes the lock of a buffer it considers: without blocking.  The
\* lock is an RLock, so the thread that holds it takes it again.
pass_acquire(owner, t) ==
    IF owner \in {None, t} THEN "taken" ELSE "skip"

\* spill(target) is called.
PairCall(t, target) ==
    /\ call[t].pc = "idle"
    /\ call' = [call EXCEPT ![t] = [NoCall EXCEPT !.pc = "enter",
                                                  !.target = target]]
    /\ UNCHANGED <<pair, plock>>

\* `with self.lock:` and the body of spill up to its return, its raise or the
\* call of the allocator.
PairEnter(t) ==
    LET b == Mine[t]
        c == SpillCase(pair[b], call[t].target)
    IN
    /\ call[t].pc = "enter"
    /\ plock[b] \in {None, t}
    /\ CASE c \in {"noop", "ValueError", "KeyError"} ->
              /\ call' = [call EXCEPT ![t] = [NoCall EXCEPT !.status = c]]
              /\ UNCHANGED <<pair, plock>>
         [] c = "tohost" ->
              /\ pair' = [pair EXCEPT ![b].memoryview = Some(pair[b].dev.data),
                                      ![b].dev = NoMem, ![b].type = "cpu"]
              /\ call' = [call EXCEPT ![t] = [NoCall EXCEPT !.status = "ok"]]
              /\ UNCHANGED plock
         [] c = "todevice" ->
              /\ pair' = [pair EXCEPT ![b].memoryview = NoMem]
              /\ plock' = [plock EXCEPT ![b] = t]
              /\ call' = [call EXCEPT ![t].pc = "alloc",
                                      ![t].mv = pair[b].memoryview]

\* rmm.DeviceBuffer.to_device runs short of device memory and starts the
\* eviction pass, once, over the registered buffers.
PairPass(t) ==
    /\ call[t].pc = "alloc"
    /\ call' = [call EXCEPT ![t].pc = "pass", ![t].cand = Pair]
    /\ UNCHANGED <<pair, plock>>

\* The pass considers buffer c: it takes c's lock if it can (a pass that has to
\* wait for the lock does not move), spills c to host when c is on device and
\* spillable, and lets the lock go.
PairConsider(t, c) ==
    LET a == pass_acquire(plock[c], t)
        k == IF a # "taken" THEN a
             ELSE IF ~spillable(pair[c]) THEN "unspillable"
             ELSE SpillCase(pair[c], "cpu")
    IN
    /\ call[t].pc = "pass"
    /\ c \in call[t].cand
    /\ k # "wait"
    /\ call' = [call EXCEPT ![t].cand = @ \ {c}, ![t].did = <<c, k>>]
    /\ pair' = IF k = "tohost"
               THEN [pair EXCEPT ![c].memoryview = Some(pair[c].dev.data),
                                 ![c].dev = NoMem, ![c].type = "cpu"]
               ELSE pair
    /\ UNCHANGED plock

\* The pass has considered every buffer: back in the allocator.
PairPassEnd(t) ==
    /\ call[t].pc = "pass"
    /\ call[t].cand = {}
    /\ call' = [call EXCEPT ![t].pc = "alloc2"]
    /\ UNCHANGED <<pair, plock>>

\* The allocation succeeds: the rest of the cpu -> gpu branch, the lock is
\* released.
PairAllocOk(t) ==
    LET b == Mine[t] IN
    /\ call[t].pc \in {"alloc", "alloc2"}
    /\ pair' = [pair EXCEPT ![b].dev = Some(to_device(call[t].mv.data)),
                            ![b].type = "gpu"]
    /\ plock' = [plock EXCEPT ![b] = None]
    /\ call' = [call EXCEPT ![t] = [NoCall EXCEPT !.status = "ok",
                                                  !.did = call[t].did]]

\* The allocation raises MemoryError: the lock is released, the memoryview
\* popped for the call is gone.
PairAllocFail(t) ==
    LET b == Mine[t] IN
    /\ call[t].pc \in {"alloc", "alloc2"}
    /\ plock' = [plock EXCEPT ![b] = None]
    /\ call' = [call EXCEPT ![t] = [NoCall EXCEPT !.status = "MemoryError",
                                                  !.did = call[t].did]]
    /\ UNCHANGED pair

\* Two buffers, each made from host or from device memory.
PairInit ==
    /\ Construct
    /\ born = "cpu"
    /\ content = <<0>>
    /\ slices = {}
    /\ NoCowYet
    /\ NoManagerYet
    /\ pair \in [Pair -> {PairFromHost(<<0>>), PairFromHost(<<1>>),
                          PairFromDevice(<<0>>, FALSE),
                          PairFromDevice(<<1>>, FALSE),
                          PairFromDevice(<<0>>, TRUE),
                          PairFromDevice(<<1>>, TRUE)}]
    /\ \A b \in Pair :
          Original[b] = IF pair[b].type = "cpu" THEN pair[b].memoryview.data
                        ELSE pair[b].dev.data
    /\ plock = [b \in Pair |-> None]
    /\ call = [t \in Threads |-> NoCall]

PairStep(A) ==
    /\ A
    /\ UNCHANGED <<spillvars, stats, last, scen, logged, slices, cowvars,
                   mgrvars>>

PairThread(t) ==
    \/ PairStep(\E target \in {"cpu", "gpu"} : PairCall(t, target))
    \/ PairStep(PairEnter(t))
    \/ PairStep(PairPass(t))
    \/ PairStep(\E c \in Pair : PairConsider(t, c))
    \/ PairStep(PairPassEnd(t))
    \/ PairStep(PairAllocOk(t))
    \/ PairStep(PairAllocFail(t))

PairNext == \E t \in Threads : PairThread(t)

\* A call once made runs on: each thread's steps are taken when they can be.
Running(t) ==
    \/ PairStep(PairEnter(t))
    \/ PairStep(\E c \in Pair : PairConsider(t, c))
    \/ PairStep(PairPassEnd(t))
    \/ PairStep(PairAllocOk(t))
    \/ PairStep(PairAllocFail(t))

PairSpec ==
    /\ PairInit
    /\ [][PairNext]_vars
    /\ \A t \in Threads : WF_vars(Running(t))

\* ------------------------------------------------------------------ claims

\* The SpillLock objects something still references: those held by callers,
\* those held by device frames, and the one each running mutable_ptr made.
LiveLocks ==
    alive \cup frames \cup {t \in Threads : frame[t].op = "mutable_ptr"}

\* No SpillLock that is still referenced is registered on the buffer.
NoLiveLock == \A L \in LiveLocks : L \notin buf.spill_locks

\* The step just taken was a call of spill(target="cpu").
SpillCpuStep == last'.op = "spill" /\ last'.arg = "cpu"

\* C1: from the moment get_ptr(spill_lock=L) has returned an address until L
\* is dropped, the buffer is on device at that address, the allocation there
\* is alive and holds the buffer's bytes, whatever the other thread and the
\* manager's eviction pass do in between.
C1_LockedAddressStays ==
    \A L \in alive :
        held[L] # -1 =>
            /\ ~is_spilled(buf)
            /\ held[L] \in Addr
            /\ buf.ptr = held[L]
            /\ heap[held[L]] = Some(content)

\* A spill("cpu") has just been refused on an unexposed buffer whose address a
\* live SpillLock holds.
C1_Witness ==
    /\ \E L \in alive : held[L] \in Addr
    /\ ~buf.exposed
    /\ last.op = "spill" /\ last.arg = "cpu" /\ last.status = "ValueError"

\* C2: the buffer is spillable exactly when it is not exposed and no live
\* SpillLock is registered on it; and a spill("cpu") of a buffer on device that
\* is exposed or locked raises ValueError and changes neither the buffer
\* (location, device pointer, exposed flag, lock set) nor device memory.
C2_UnspillableSpillFails ==
    /\ [](spillable(buf) <=> (~buf.exposed /\ NoLiveLock))
    /\ [][(SpillCpuStep /\ ~is_spilled(buf) /\ (buf.exposed \/ ~NoLiveLock))
            => (/\ last'.status = "ValueError"
                /\ buf' = buf
                /\ heap' = heap)]_vars

\* A buffer constructed exposed has just refused a spill("cpu").
C2_Witness ==
    /\ buf.exposed /\ handed = -1 /\ ~is_spilled(buf)
    /\ last.op = "spill" /\ last.arg = "cpu" /\ last.status = "ValueError"

\* C3: once the exposed flag is true, no step of any call (spill, ptr, get_ptr,
\* spill_lock, mutable_ptr, memoryview, serialize) makes it false again.
C3_ExposedIsTerminal == [][buf.exposed => buf'.exposed]_vars

\* mutable_ptr has returned on a buffer that ptr had exposed before.
C3_Witness ==
    /\ buf.exposed /\ handed \in Addr
    /\ last.op = "mutable_ptr" /\ last.status = "ok"

\* C4: once ptr (or get_ptr without a SpillLock) has returned an address, the
\* buffer is exposed and on device at that address in every later state, and
\* the allocation there is alive and holds the buffer's bytes.
C4_ExposedAddressStays ==
    handed # -1 =>
        /\ ~is_spilled(buf)
        /\ buf.exposed
        /\ handed \in Addr
        /\ buf.ptr = handed
        /\ heap[handed] = Some(content)

\* After ptr returned an address, with no SpillLock registered, a spill("cpu")
\* has been refused.
C4_Witness ==
    /\ handed \in Addr /\ buf.spill_locks = {}
    /\ last.op = "spill" /\ last.arg = "cpu" /\ last.status = "ValueError"

\* C5: a SpillLock that nothing references any more no longer locks the
\* buffer, with no unlock call: whenever no live SpillLock is registered and
\* the buffer is not exposed it is spillable, and a spill("cpu") of such a
\* buffer on device succeeds and leaves it on host with its bytes.
C5_DroppedLocksRelease ==
    /\ []((NoLiveLock /\ ~buf.exposed) => spillable(buf))
    /\ [][(SpillCpuStep /\ ~is_spilled(buf) /\ NoLiveLock /\ ~buf.exposed)
            => (/\ last'.status = "ok"
                /\ is_spilled(buf')
                /\ buf'.memoryview = Some(content))]_vars

\* The SpillLock that get_ptr registered has been dropped and the spill("cpu")
\* after it has succeeded.
C5_Witness == scen = 6 /\ last.status = "ok" /\ is_spilled(buf)

\* C6: the scenario's steps have exactly the stated outcomes: get_ptr(L)
\* returns the buffer's device address; spill("cpu") raises ValueError and the
\* buffer stays where it is; after L is dropped spill("cpu") succeeds and the
\* buffer is on host; get_ptr() without a lock goes on to allocate and, the
\* allocation succeeding, returns the address of the buffer, now on device and
\* exposed; a further spill("cpu") raises ValueError.
C6_LockSpillScenario ==
    /\ scen = 2 => last.status = "locked" /\ ~is_spilled(buf)
    /\ scen = 3 => /\ last.status = "ok" /\ last.val \in Addr
                   /\ last.val = buf.ptr /\ ~is_spilled(buf)
    /\ scen = 4 => /\ last.status = "ValueError"
                   /\ ~is_spilled(buf) /\ ~buf.exposed
    /\ scen = 5 => last.status = "released" /\ spillable(buf)
    /\ scen = 6 => /\ last.status = "ok" /\ is_spilled(buf)
                   /\ buf.ptr = 0 /\ buf.memoryview = Some(content)
    /\ scen = 7 => last.status = "alloc"
    /\ scen = 8 => /\ last.status = "ok" /\ last.val \in Addr
                   /\ last.val = buf.ptr /\ ~is_spilled(buf) /\ buf.exposed
    /\ scen = 9 => /\ last.status = "ValueError"
                   /\ ~is_spilled(buf) /\ buf.exposed

\* The scenario has been followed to its last step.
C6_Witness == scen = 9

\* C7: spilling to host and back loses nothing: a buffer on device holds, at
\* its address, its bytes and as many as its size; a buffer on host holds them
\* in its memoryview; and the memoryview a recovery has popped holds them too.
C7_RoundTripLossless ==
    /\ buf.size = Len(content)
    /\ ~is_spilled(buf) => buf.ptr \in Addr /\ heap[buf.ptr] = Some(content)
    /\ (is_spilled(buf) /\ buf.memoryview.has) => buf.memoryview = Some(content)
    /\ \A t \in Threads : pc[t] = "alloc" => frame[t].mv = Some(content)

\* A buffer constructed on device, hence spilled since, has just been brought
\* back by spill("gpu").
C7_Witness ==
    /\ born = "gpu" /\ ~is_spilled(buf)
    /\ last.op = "spill" /\ last.arg = "gpu" /\ last.status = "ok"

\* C8: when the device allocation of a host -> device recovery fails, the
\* buffer is as it was before the call: on host, holding its host bytes.
C8_FailedRecoveryKeepsBytes ==
    last.status = "MemoryError" =>
        /\ is_spilled(buf)
        /\ buf.memoryview = Some(content)

\* C9: spill(target) with a target that is neither "cpu" nor "gpu" raises
\* ValueError in every state of the buffer, changes neither the buffer
\* (location, device pointer, host storage, exposed flag, lock set) nor device
\* memory, reports nothing to the statistics, and holds no lock afterwards.
C9_UnknownTargetFails ==
    [][(last'.op = "spill" /\ last'.arg = "disk")
        => (/\ last'.status = "ValueError"
            /\ buf' = buf
            /\ heap' = heap
            /\ stats' = <<>>
            /\ lock' = lock
            /\ pc' = pc)]_vars

\* spill("disk") has just failed on a spilled buffer.
C9_Witness ==
    /\ is_spilled(buf) /\ buf.memoryview.has
    /\ last.op = "spill" /\ last.arg = "disk" /\ last.status = "ValueError"

\* C10: spill(target) on a buffer already at target returns without an error,
\* exposed or locked as the buffer may be, changes nothing and reports nothing
\* to the statistics.
C10_SpillToSamePlaceIsNoop ==
    [][(last'.op = "spill" /\ last'.arg = buf.type)
        => (/\ last'.status = "noop"
            /\ buf' = buf
            /\ heap' = heap
            /\ stats' = <<>>
            /\ lock' = lock
            /\ pc' = pc)]_vars

\* spill("gpu") has just returned on an unspillable buffer on device.
C10_Witness ==
    /\ ~spillable(buf) /\ ~is_spilled(buf)
    /\ last.op = "spill" /\ last.arg = "gpu" /\ last.status = "noop"

\* C11: a step that changes the buffer's location reports it to the
\* statistics exactly once, as log_spill(source, destination, size), whichever
\* call made it (spill, ptr, get_ptr, spill_lock, mutable_ptr, memoryview or
\* the manager); a step that leaves the location alone (a no-op spill, a
\* failed one, any other call) reports no spill.
C11_EveryMoveLoggedOnce ==
    [][IF buf'.type # buf.type
       THEN /\ Cardinality(Reports(stats', "spill")) = 1
            /\ \E i \in Reports(stats', "spill") :
                 stats'[i] = <<"spill", buf.type, buf'.type, buf.size>>
       ELSE Reports(stats', "spill") = {}]_vars

\* memoryview() has just spilled a buffer and reported the move.
C11_Witness ==
    /\ last.op = "memoryview" /\ last.status = "ok"
    /\ stats = <<(<<"spill", "gpu", "cpu", buf.size>>)>>
    /\ is_spilled(buf)

\* C12: log_expose is called at most once for a buffer: once the statistics
\* have been told of its exposure, no later step tells them again.
C12_ExposeLoggedOnce ==
    [][logged => Reports(stats', "expose") = {}]_vars

\* C13: a buffer and its slices have one location, one exposed flag and one
\* lock set: in every state is_spilled, exposed and spillable read through any
\* slice are those of the buffer, and a ptr, get_ptr, spill_lock or spill made
\* through a slice has moved, exposed or locked the buffer itself.
C13_SlicesShareState ==
    /\ [](\A s \in slices :
            /\ slice_is_spilled(buf, s) = is_spilled(buf)
            /\ slice_exposed(buf, s) = buf.exposed
            /\ slice_spillable(buf, s) = spillable(buf))
    /\ [][(last'.status = "ok" /\ last'.op \in {"ptr", "get_ptr", "spill_lock"})
            => \A s \in slices' :
                 /\ ~slice_is_spilled(buf', s)
                 /\ ~slice_spillable(buf', s)
                 /\ last'.op = "ptr" => slice_exposed(buf', s)]_vars

\* ptr read through a slice at offset 1 has returned: the buffer is exposed.
C13_Witness ==
    /\ \E s \in slices : s.offset > 0 /\ last.off = s.offset
    /\ last.op = "ptr" /\ last.status = "ok"
    /\ buf.exposed /\ ~is_spilled(buf)

\* C14: _getitem(offset, size) on an object of n bytes, the buffer or one of
\* its slices, raises ValueError and makes no slice when offset < 0, size < 0
\* or offset + size > n.
C14_BadBoundsRefused ==
    [][(/\ last'.op = "getitem"
        /\ \/ last'.arg[2] < 0
           \/ last'.arg[3] < 0
           \/ last'.arg[2] + last'.arg[3] > last'.arg[1])
        => (last'.status = "ValueError" /\ slices' = slices)]_vars

\* The slice _getitem(0, size) makes of the SpillableBuffer.
WholeSlice ==
    LET r == getitem(buf, 0, buf.size) IN [offset |-> r.offset, size |-> r.size]

C16_SerializeDoesNotExpose ==
    [][last'.op \in {"serialize", "read_frame", "release_frame"}
        => buf'.exposed = buf.exposed]_vars

\* The frame serialize() returned for an unexposed buffer on device has been
\* read, and the buffer is still unexposed.
C16_Witness ==
    /\ last.op = "read_frame" /\ last.data = Some(content)
    /\ ~buf.exposed /\ ~is_spilled(buf) /\ frames # {}

\* C17: while a device frame returned by serialize() is alive the buffer is
\* on device at the frame's address with its bytes and is unspillable:
\* spill("cpu") raises ValueError and the manager does not evict it.  When the
\* frame is released its SpillLock is gone, and the buffer is spillable again
\* unless it is exposed or another SpillLock is registered.
C17_FrameKeepsBufferOnDevice ==
    /\ [](\A F \in frames :
            /\ ~is_spilled(buf) /\ ~spillable(buf)
            /\ held[F] \in Addr /\ buf.ptr = held[F]
            /\ heap[held[F]] = Some(content))
    /\ [][(SpillCpuStep /\ frames # {})
            => (last'.status = "ValueError" /\ buf' = buf /\ heap' = heap)]_vars
    /\ [][last'.op = "evict" => frames = {}]_vars
    /\ [][last'.op = "release_frame"
            => (/\ buf'.spill_locks = buf.spill_locks \ (frames \ frames')
                /\ spillable(buf') <=>
                     (~buf.exposed /\ buf.spill_locks \subseteq frames \ frames'))
       ]_vars

\* The frame of an unexposed buffer has been released and the buffer, still on
\* device, is spillable again.
C17_Witness ==
    /\ last.op = "release_frame"
    /\ spillable(buf) /\ ~is_spilled(buf) /\ frames = {}

\* C18: building the descriptor __cuda_array_interface__ changes nothing: the
\* buffer stays where it is and as exposed as it was, nothing is allocated,
\* locked or reported; reading another element than 0 of its "data" entry
\* changes nothing either; reading element 0 is ptr, and when it has returned
\* an address the buffer is on device at that address and exposed, for good.
C18_DescriptorIsLazy ==
    /\ [][last'.op \in {"cuda_array_interface", "data"}
            => (/\ buf' = buf
                /\ heap' = heap
                /\ stats' = <<>>
                /\ lock' = lock
                /\ pc' = pc)]_vars
    /\ [][(last'.op = "ptr" /\ last'.status = "ok")
            => (/\ buf'.exposed
                /\ ~is_spilled(buf')
                /\ last'.val = buf'.ptr)]_vars
    /\ [][buf.exposed => buf'.exposed]_vars

\* The descriptor of a spilled, unexposed buffer has just been built.
C18_Witness ==
    /\ last.op = "cuda_array_interface"
    /\ is_spilled(buf) /\ ~buf.exposed /\ buf.memoryview = Some(content)


\* C19: a spill_to_limit() pass of the manager always comes to an end, whatever
\* the registry holds when it is called; it ends with a report, never with an
\* error, and when it returns either the usage it counts is within the budget
\* ("within") or no registered buffer is left that it could spill
\* ("exhausted").  Each buffer it spills lowers the usage.
Returns == pass.pc # "idle" /\ pass'.pc = "idle"

AllUnlocked ==
    \A b \in BufIds :
        /\ registry[b].registered
        /\ ~registry[b].locked
        /\ ~registry[b].exposed

C20_OldestFirstWithinBudget ==
    /\ [][pass.victims = <<>> /\ pass'.victims # <<>> =>
            LET v == pass'.victims[1] IN
            /\ v \in Victims(registry)
            /\ registry'[v].spilled
            /\ \A c \in Victims(registry) :
                   registry[v].last_accessed <= registry[c].last_accessed]_vars
    /\ [][Returns /\ budget = 5000 /\ AllUnlocked' =>
            resident_bytes(registry') <= 5000]_vars

\* The scenario: all three registered and unlocked, 7168 bytes on device, the
\* pass spilled two of them, oldest first, and returned within the budget.
C20_Witness ==
    /\ pass.pc = "idle"
    /\ pass.report = "within"
    /\ budget = 5000
    /\ AllUnlocked
    /\ Len(pass.victims) = 2
    /\ registry[pass.victims[1]].last_accessed
           < registry[pass.victims[2]].last_accessed
    /\ resident_bytes(registry) + BufSize[pass.victims[1]]
           + BufSize[pass.victims[2]] = 7168
    /\ resident_bytes(registry) <= 5000


\* C23: no thread holds the buffer's lock while an operation outside the
\* buffer is running for it: in particular the lock is free while the device
\* allocation of a host -> device recovery (rmm.DeviceBuffer.to_device) runs.
C23_LockNotHeldAcrossAlloc ==
    \A t \in Threads : pc[t] = "alloc" => lock # t


\* C21: the eviction pass that the device allocation of a buffer's own
\* host -> device recovery starts, in the thread that runs the recovery, finds
\* the buffer's lock takable (it is re-entrant) and the buffer already "cpu":
\* its spill("cpu") is a no-op that changes neither the buffer nor its lock.
\* The recovery then ends: with the buffer on device holding the bytes it was
\* made from, or with the allocator's MemoryError.
OwnConsidered(t) ==
    /\ call[t].pc = "pass"
    /\ Mine[t] \in call[t].cand
    /\ Mine[t] \notin call'[t].cand

Recovered(t) ==
    /\ call[t].pc \in {"alloc", "alloc2"}
    /\ call'[t].status = "ok"

C21_NoSpillOfSelf ==
    /\ [][\A t \in Threads : OwnConsidered(t) =>
            /\ call'[t].did = <<Mine[t], "noop">>
            /\ pair' = pair
            /\ plock' = plock]_vars
    /\ [][\A t \in Threads : Recovered(t) =>
            /\ pair'[Mine[t]].type = "gpu"
            /\ pair'[Mine[t]].dev = Some(Original[Mine[t]])
            /\ plock'[Mine[t]] = None]_vars
    /\ \A t \in Threads :
          (call[t].pc \in {"alloc", "pass", "alloc2"}) ~> (call[t].pc = "idle")

\* A recovery whose allocation started a pass that considered the buffer
\* itself last has returned, the buffer on device.
C21_Witness ==
    /\ call["t1"].pc = "idle"
    /\ call["t1"].status = "ok"
    /\ call["t1"].did = <<"x", "noop">>
    /\ pair["x"].type = "gpu"
    /\ pair["x"].dev = Some(Original["x"])

\* C22: two threads, each recovering its own host-resident buffer while the
\* pass its allocation started considers the other thread's buffer, never
\* wait for each other: a thread inside a call always has a step it can take
\* (so none waits for a lock while it holds another), and every call ends.
C22_NoCrossDeadlock ==
    /\ [](\A t \in Threads : call[t].pc # "idle" => ENABLED Running(t))
    /\ \A t \in Threads : (call[t].pc # "idle") ~> (call[t].pc = "idle")

\* Both recoveries have returned with the buffers on device, each after its
\* pass found the other buffer's lock held and passed it over.
C22_Witness ==
    /\ \A t \in Threads : call[t].pc = "idle" /\ call[t].status = "ok"
    /\ call["t1"].did = <<"y", "skip">>
    /\ call["t2"].did = <<"x", "skip">>
    /\ \A b \in Pair : pair[b].type = "gpu" /\ pair[b].dev = Some(Original[b])


\* C24: a buffer made by copy() reads the same bytes as the buffer it was made
\* from, and a write through the address that x.mutable_ptr has just returned
\* leaves unchanged what every buffer reads that x was copied from or that was
\* copied from x.
Made(y) == ~cow[y].live /\ cow'[y].live /\ cow'[y].copy_of # None

Related(c, x) == cow[c].copy_of = x \/ cow[x].copy_of = c

C24_CopyOnWriteIsolation ==
    /\ [][\A y \in CowIds : Made(y) =>
            cow_read(cow'[y], cowmem')
                = cow_read(cow'[cow'[y].copy_of], cowmem')]_vars
    /\ [][last'.op = "cow_write" =>
            \A c \in CowIds \ {last.arg} :
                (cow[c].live /\ Related(c, last.arg)) =>
                    cow_read(cow[c], cowmem') = cow_read(cow[c], cowmem)]_vars

\* y was made from x as a shallow copy (it is still in the weak set of x's
\* allocation), has unlinked, and a write through its mutable_ptr has made the
\* two read different bytes.
C24_Witness ==
    /\ last.op = "cow_write"
    /\ \E x \in CowIds, y \in CowIds :
          /\ cow[x].live /\ cow[y].live
          /\ cow[y].copy_of = x
          /\ y \in instances[cow[x].ptr]
          /\ cow[y].ptr # cow[x].ptr
          /\ cow_read(cow[y], cowmem) # cow_read(cow[x], cowmem)


\* C25: copy(deep=False) of a buffer that is not zero-copied copies no bytes
\* and allocates nothing: the new buffer has the pointer, size and owner of the
\* original, is in the same weak set, and both are shared afterwards.
C25_ShallowCopyAliases ==
    [][\A y \in CowIds :
         LET x == cow'[y].copy_of IN
         (/\ Made(y)
          /\ last'.op = "cow_copy" /\ last'.arg = FALSE
          /\ ~cow[x].zero_copied) =>
            /\ cow'[y].ptr = cow[x].ptr
            /\ cow'[y].size = cow[x].size
            /\ cow'[y].owner = cow[x].owner
            /\ cow'[x] = cow[x]
            /\ cowmem' = cowmem
            /\ cow'[y].inst = cow'[x].inst
            /\ {x, y} \subseteq instances'[cow'[x].inst]
            /\ is_shared(cow'[x], instances')
            /\ is_shared(cow'[y], instances')]_vars

\* A shallow copy has just been made of a buffer that was alone on its
\* allocation.
C25_Witness ==
    /\ last.op = "cow_copy" /\ last.arg = FALSE /\ last.status = "shallow"
    /\ \E x \in CowIds, y \in CowIds :
          /\ x # y
          /\ cow[x].live /\ cow[y].live
          /\ cow[y].copy_of = x
          /\ cow[y].ptr = cow[x].ptr
          /\ instances[cow[x].ptr] = {x, y}


\* C26: x.mutable_ptr on a buffer that is shared and not zero-copied, when its
\* allocation succeeds, moves x to a newly allocated region holding the same
\* bytes, with its pointer and owner rebound, registers it under the new
\* pointer and leaves it unshared; every other buffer keeps its fields and its
\* bytes.
Unlinks(x) ==
    /\ last'.op = "cow_mutable_ptr" /\ last'.arg = x /\ last'.status = "ok"
    /\ cow[x].live /\ ~cow[x].zero_copied /\ is_shared(cow[x], instances)

C26_UnlinkBeforeMutation ==
    [][\A x \in CowIds : Unlinks(x) =>
         /\ cow'[x].ptr # cow[x].ptr
         /\ ~cowmem[CellOf(cow'[x].ptr)].has
         /\ cow'[x].owner = CellOf(cow'[x].ptr)
         /\ cow'[x].size = cow[x].size
         /\ cow_read(cow'[x], cowmem') = cow_read(cow[x], cowmem)
         /\ x \in instances'[cow'[x].ptr]
         /\ cow'[x].inst = cow'[x].ptr
         /\ ~is_shared(cow'[x], instances')
         /\ \A c \in CowIds \ {x} :
               cow[c].live =>
                  /\ cow'[c] = cow[c]
                  /\ cow_read(cow'[c], cowmem') = cow_read(cow[c], cowmem)]_vars


\* C27: in every state, a live buffer finds itself shared exactly when some
\* other live buffer has its pointer, that is, aliases its allocation.
Aliased(x) ==
    \E c \in CowIds \ {x} : cow[c].live /\ cow[c].ptr = cow[x].ptr

C27_SharedIffAliased ==
    \A x \in CowIds : cow[x].live => (is_shared(cow[x], instances) <=> Aliased(x))

\* C28: when exactly two live buffers have the same pointer and one of them is
\* destroyed, the weak set of that pointer holds the survivor alone and the
\* survivor is not shared; and a mutable_ptr on a buffer that is not shared
\* allocates nothing and leaves its pointer.
TwoShare(x, y) ==
    /\ x # y
    /\ cow[x].live /\ cow[y].live
    /\ cow[x].ptr = cow[y].ptr
    /\ \A c \in CowIds \ {x, y} : cow[c].live => cow[c].ptr # cow[x].ptr

C28_SurvivorIsUnshared ==
    /\ [][\A x \in CowIds, y \in CowIds :
            (TwoShare(x, y) /\ cow'[x].live /\ ~cow'[y].live) =>
               /\ instances'[cow'[x].ptr] = {x}
               /\ ~is_shared(cow'[x], instances')]_vars
    /\ [][\A x \in CowIds :
            (/\ last'.op = "cow_mutable_ptr" /\ last'.arg = x
             /\ cow[x].live /\ ~is_shared(cow[x], instances)) =>
               /\ last'.status = "ok"
               /\ cow'[x].ptr = cow[x].ptr
               /\ cowmem' = cowmem]_vars

\* C29: in every state, a pointer has an entry in _instances only if some live
\* buffer has that pointer.
C29_NoEntryWithoutBuffer ==
    \A k \in PtrKeys :
        instances[k] # {} => \E c \in CowIds : cow[c].live /\ cow[c].ptr = k


NewCells(old, mem) == {a \in Addr : mem[a].has /\ ~old[a].has}

\* The step just taken was y = x.copy(deep=False) and it returned.
ShallowCopyAsked ==
    last'.op = "cow_copy" /\ last'.arg = FALSE /\ last'.status # "MemoryError"

C32_MutablePtrIsExclusive ==
    [][last'.op = "cow_write" =>
         \A c \in CowIds \ {last.arg} :
             cow[c].live =>
                 cow_read(cow'[c], cowmem') = cow_read(cow[c], cowmem)]_vars


\* C33: y = x.copy(deep=True), when its allocation succeeds, is on an
\* allocation that was not there before, with x's bytes and size, not
\* zero-copied and alone in its weak set; x keeps its pointer, its weak set
\* and its zero-copied flag.
C33_DeepCopyIsFresh ==
    [][\A y \in CowIds :
         (Made(y) /\ last'.op = "cow_copy" /\ last'.arg = TRUE) =>
             LET x == cow'[y].copy_of IN
             /\ ~cowmem[cow'[y].owner].has
             /\ cow'[y].ptr # cow[x].ptr
             /\ cow'[y].size = cow[x].size
             /\ cow_read(cow'[y], cowmem') = cow_read(cow[x], cowmem)
             /\ ~cow'[y].zero_copied
             /\ instances'[cow'[y].inst] = {y}
             /\ cow'[x] = cow[x]
             /\ instances'[cow[x].inst] = instances[cow[x].inst]]_vars


\* C34: under every interleaving of two threads that copy, unlink and destroy
\* CopyOnWriteBuffers, every live buffer is in the weak set of its current
\* pointer, and when mutable_ptr returns an address to a thread no other live
\* buffer has that pointer.
C34_RegistryUpdatesAreAtomic ==
    /\ [](\A x \in CowIds : cow[x].live => x \in instances[cow[x].ptr])
    /\ [][\A t \in Threads :
            (cowcall[t].pc = "ret" /\ cowcall'[t].pc = "idle") =>
                \A c \in CowIds \ {cowcall[t].x} :
                    cow'[c].live => cow'[c].ptr # last'.val]_vars


\* C35: whatever the threads have done so far, and wherever they stand in a
\* call, a buffer that is on host is not exposed and has no SpillLock in its
\* weak set, and no SpillLock still referenced is registered on it.
C35_OnHostIsSpillable ==
    buf.type # "gpu" =>
        /\ ~buf.exposed
        /\ buf.spill_locks = {}
        /\ NoLiveLock

\* The buffer was spilled to host; a caller holds a SpillLock object that is
\* not registered, and a thread is in the middle of ptr, which will expose
\* the buffer once it is back on device.
C35_Witness ==
    /\ buf.type = "cpu" /\ born = "gpu"
    /\ alive # {}
    /\ \E t \in Threads : pc[t] # "idle" /\ frame[t].op = "ptr"


\* The host storage and the device storage of the buffer, as they are.
HoldsHostBytes ==
    /\ buf.memoryview.has /\ Len(buf.memoryview.data) = buf.size
    /\ buf.ptr = 0 /\ buf.owner = 0

HoldsDeviceBytes ==
    /\ buf.owner \in Addr /\ buf.ptr # 0
    /\ heap[buf.owner].has /\ Len(heap[buf.owner].data) = buf.size
    /\ ~buf.memoryview.has

\* C36: in every state in which no thread is inside the buffer's lock, also
\* after a call that raised, the buffer is tagged "cpu" exactly when it holds
\* host bytes of its size with a null device pointer and no owner, and tagged
\* "gpu" exactly when it holds a device allocation of its size and no host
\* bytes.
C36_TagAgreesWithStorage ==
    lock = None =>
        /\ buf.type \in {"cpu", "gpu"}
        /\ (buf.type = "cpu") <=> HoldsHostBytes
        /\ (buf.type = "gpu") <=> HoldsDeviceBytes


\* C37: no step of mutable_ptr changes the exposed flag; when mutable_ptr
\* returns, the buffer is on device at the address returned, the allocation
\* there is alive, the SpillLock made for the call is no longer in the weak
\* set, and, if the buffer is not exposed and no SpillLock still referenced is
\* registered, the weak set is empty and the lock free: the manager's
\* eviction pass may spill the buffer, which frees the address returned.
C37_MutablePtrLeavesNoLock ==
    /\ [][last'.op = "mutable_ptr" => buf'.exposed = buf.exposed]_vars
    /\ [][\A t \in Threads :
            (/\ frame[t].op = "mutable_ptr" /\ frame'[t].op = "none"
             /\ last'.op = "mutable_ptr" /\ last'.status = "ok") =>
                /\ buf'.type = "gpu"
                /\ last'.val = buf'.ptr /\ buf'.ptr # 0
                /\ heap'[buf'.owner].has
                /\ t \notin buf'.spill_locks
                /\ buf'.spill_locks = buf.spill_locks \ {t}
                /\ (~buf'.exposed /\ NoLiveLock') =>
                      /\ buf'.spill_locks = {}
                      /\ lock' = None
                      /\ CanEvict']_vars

\* mutable_ptr has just returned the address of a buffer that had to be
\* brought back from host, and the buffer can be evicted at once.
C37_Witness ==
    /\ last.op = "mutable_ptr" /\ last.status = "ok"
    /\ born = "cpu"
    /\ last.val = buf.ptr
    /\ ~buf.exposed /\ buf.spill_locks = {}
    /\ CanEvict


\* The bytes of the range [off, off + n) of the buffer.
RangeOf(off, n) == [i \in 1..n |-> content[off + i]]

\* C38: memoryview(), called on the buffer or on a slice of it, leaves the
\* exposed flag and the lock set as they are; a buffer that was spillable is
\* on host afterwards, an unspillable one is where it was; and the call
\* returns the bytes of the range asked for.
C38_MemoryViewFrame ==
    [][last'.op \in {"memoryview", "slice_memoryview"} =>
         /\ buf'.exposed = buf.exposed
         /\ buf'.spill_locks = buf.spill_locks
         /\ IF ~buf.exposed /\ buf.spill_locks = {}
            THEN buf'.type = "cpu"
            ELSE buf'.type = buf.type /\ buf' = buf
         /\ last'.status = "ok"
         /\ last'.data = Some(RangeOf(last'.arg[1], last'.arg[2]))]_vars


\* The calls that need a device address.
NeedsDevice ==
    \/ last'.op \in {"ptr", "get_ptr", "spill_lock", "mutable_ptr"}
    \/ last'.op = "spill" /\ last'.arg = "gpu"

\* C39: a buffer made from host memory is, before anything is called on it,
\* on host with the bytes it was made from, with no device pointer, no owner
\* and no device allocation, not exposed and spillable; and whenever a buffer
\* made from host memory goes from host to device, the step is one of ptr,
\* get_ptr, spill_lock, mutable_ptr or spill(target="gpu").
C39_FromHostStartsSpilled ==
    /\ (born = "cpu" /\ last.op = "init") =>
          /\ buf.type = "cpu" /\ buf.memoryview = Some(content)
          /\ buf.ptr = 0 /\ buf.owner = 0
          /\ \A a \in Addr : ~heap[a].has
          /\ ~buf.exposed /\ buf.spill_locks = {}
          /\ SpillCase(buf, "cpu") = "noop"
    /\ [][(born = "cpu" /\ buf.type = "cpu" /\ buf'.type # "cpu") =>
            /\ NeedsDevice
            /\ last'.status \in {"ok", "locked"}
            /\ buf'.type = "gpu"
            /\ heap'[buf'.owner] = Some(content)]_vars

\* A buffer made from host memory has been brought to device by its first
\* spill_lock.
C39_Witness ==
    /\ born = "cpu" /\ buf.type = "gpu"
    /\ last.op = "spill_lock" /\ last.status = "ok"
    /\ ~buf.exposed
    /\ heap[buf.owner] = Some(content)

====
